---- MODULE Spec2Model ----
(***************************************************************************)
(* A model of the retrieval core of ghizdavur/rag: the vector store        *)
(* (BuildVectorStore, Save, LoadVectorStore, Search) and the retrieval     *)
(* service (Answer, AddSource, SaveStore).                                 *)
(*                                                                         *)
(* The specifications of the module:                                  *)
(*   SpecSearch   VectorStore.Search applied to bounded stores and queries *)
(*   SpecBuild    one run of BuildVectorStore against a provider whose     *)
(*                every call may succeed or fail                           *)
(*   SpecService  a service handling Answer, AddSource, SaveStore and a    *)
(*                restart that loads the store from disk                   *)
(*   SpecChunk    ChunkDocuments applied to bounded documents and options  *)
(*   SpecEndToEnd three documents chunked, built into a store and searched *)
(*   SpecConfig   NewServiceFromEnv under every environment of a small set *)
(*   SpecConcurrent  two add-source requests handled at the same time on   *)
(*                one service, statement by statement                      *)
(* Each leaves the variables of the others at their initial values.        *)
(***************************************************************************)
EXTENDS Integers, Sequences, FiniteSets, TLC

VARIABLES
    searchIn,     \* SpecSearch: the receiver and arguments of Search
    searchOut,    \* SpecSearch: what Search returned, or Pending
    bPc,          \* SpecBuild: position in BuildVectorStore
    bIn,          \* SpecBuild: the arguments (embedder nil or not, batchSize)
    bChunks,      \* SpecBuild: the caller's chunk slice, written in place
    bStart,       \* SpecBuild: loop variable start
    bAttempt,     \* SpecBuild: loop variable attempt
    bTrace,       \* SpecBuild: the Embed calls and sleeps made so far
    bResult,      \* SpecBuild: the returned (store, error) pair
    bCancelAt,    \* SpecBuild: the length of bTrace when ctx was cancelled,
                  \* or -1 while it is not
    store,        \* SpecService: Service.store (NoStore or a VectorStore)
    disk,         \* SpecService: the file at the index path (NoFile or JSON)
    saved,        \* SpecService: the store value of the last successful save
    now,          \* SpecService: the clock read by time.Now
    calls,        \* SpecService: number of handler calls made
    defaultTopK,  \* SpecService: Service.defaultTopK
    last,         \* SpecService: the last call: inputs, outcome, provider
                  \* calls, and for AddSource the store before the call
    env,          \* SpecConfig: the environment variables the service
                  \* configuration is read from
    handlers,     \* SpecConcurrent: the add-source requests being handled,
                  \* each with its position and its locals
    chunkIn,      \* SpecChunk: the documents and options given to the chunker
    chunkOut      \* SpecChunk: the chunks it returned, or Pending

vars == <<searchIn, searchOut, bPc, bIn, bChunks, bStart, bAttempt, bTrace,
          bResult, bCancelAt, store, disk, saved, now, calls, defaultTopK, last,
          env, handlers, chunkIn, chunkOut>>

searchVars == <<searchIn, searchOut>>
buildVars == <<bPc, bIn, bChunks, bStart, bAttempt, bTrace, bResult, bCancelAt>>
serviceVars == <<store, disk, saved, now, calls, defaultTopK, last, env, handlers>>
chunkVars == <<chunkIn, chunkOut>>

-----------------------------------------------------------------------------
(* Bounds of the model.                                                    *)

MaxSearchChunks == 3
MaxTopK == 3
MaxLargeStore == 5
MaxBuildChunks == 17
MaxBatchSize == 3
MaxBatches == 3
MaxCalls == 2
MaxContentLen == 8
MaxChunkSize == 4
MaxOverlap == 5

-----------------------------------------------------------------------------
(* Sequence helpers.                                                       *)

Min(a, b) == IF a < b THEN a ELSE b

Reverse(s) == [i \in 1..Len(s) |-> s[Len(s) + 1 - i]]

Range(s) == {s[i] : i \in 1..Len(s)}

\* s with positions i and j (0-based, as in the Go code) exchanged
SwapAt(s, i, j) == [s EXCEPT ![i + 1] = s[j + 1], ![j + 1] = s[i + 1]]

-----------------------------------------------------------------------------
(* Go slices.  A slice is [nil, elems]: the nil slice and the empty        *)
(* non-nil slice both have length 0 but are encoded differently by         *)
(* encoding/json.                                                          *)

NilSlice == [nil |-> TRUE, elems |-> <<>>]

Slice(s) == [nil |-> FALSE, elems |-> s]

SliceLen(s) == Len(s.elems)

\* an append that keeps only what is appended, the variant C23 is tested
\* against
GoAppendOverwriting(s, xs) == IF Len(xs) = 0 THEN s ELSE Slice(xs)

\* append(s, xs...): appending nothing returns s itself
GoAppend(s, xs) == IF Len(xs) = 0 THEN s ELSE Slice(s.elems \o xs)

-----------------------------------------------------------------------------
(* Go strings, run-length encoded: a string is a sequence of runs          *)
(* [c, n], n >= 1 copies of the character c, adjacent runs of different    *)
(* characters.  "" is the empty sequence.                                  *)

Str(c, n) == IF n = 0 THEN <<>> ELSE <<[c |-> c, n |-> n]>>

\* a + b
Concat(a, b) ==
    IF Len(a) = 0 THEN b
    ELSE IF Len(b) = 0 THEN a
    ELSE IF a[Len(a)].c = b[1].c
    THEN SubSeq(a, 1, Len(a) - 1)
         \o <<[c |-> b[1].c, n |-> a[Len(a)].n + b[1].n]>>
         \o Tail(b)
    ELSE a \o b

\* the string of a sequence of characters
RECURSIVE Lit(_)
Lit(cs) == IF Len(cs) = 0 THEN <<>> ELSE Concat(Str(cs[1], 1), Lit(Tail(cs)))

\* number of characters (code points)
RECURSIVE StrLen(_)
StrLen(s) == IF Len(s) = 0 THEN 0 ELSE s[1].n + StrLen(Tail(s))

\* bytes of the UTF-8 encoding of a character: "U+00E9" is a two-byte
\* character, "0xC3" one stray byte of a character cut in two
ByteWidth(c) == IF c = "U+00E9" THEN 2 ELSE 1

\* len(s): the number of bytes
RECURSIVE ByteLen(_)
ByteLen(s) == IF Len(s) = 0 THEN 0 ELSE s[1].n * ByteWidth(s[1].c) + ByteLen(Tail(s))

\* s[:k] for a byte count k <= len(s)
RECURSIVE BytePrefix(_, _)
BytePrefix(s, k) ==
    IF k <= 0 \/ Len(s) = 0 THEN <<>>
    ELSE LET w == ByteWidth(s[1].c)
             whole == Min(s[1].n, k \div w)
             used == whole * w
         IN  IF whole = s[1].n
             THEN Concat(Str(s[1].c, whole), BytePrefix(Tail(s), k - used))
             ELSE Concat(Str(s[1].c, whole),
                         IF k - used > 0 THEN Str("0xC3", k - used) ELSE <<>>)

\* the characters from..to-1 (0-based) of s
RECURSIVE StrSlice(_, _, _)
StrSlice(s, from, to) ==
    IF Len(s) = 0 \/ to <= 0 \/ from >= to THEN <<>>
    ELSE LET n == s[1].n
             lo == IF from < 0 THEN 0 ELSE from
             hi == Min(to, n)
         IN  Concat(IF hi > lo THEN Str(s[1].c, hi - lo) ELSE <<>>,
                    StrSlice(Tail(s), from - n, to - n))

IsSpace(c) == c \in {" ", "\n", "\t", "\r"}

RECURSIVE TrimLeft(_)
TrimLeft(s) == IF Len(s) > 0 /\ IsSpace(s[1].c) THEN TrimLeft(Tail(s)) ELSE s

RECURSIVE TrimRight(_)
TrimRight(s) ==
    IF Len(s) > 0 /\ IsSpace(s[Len(s)].c) THEN TrimRight(SubSeq(s, 1, Len(s) - 1))
    ELSE s

\* strings.TrimSpace
TrimSpace(s) == TrimRight(TrimLeft(s))

UpperLetters == <<"A", "B", "C", "D", "E", "F", "G", "H", "I", "J", "K", "L", "M",
                  "N", "O", "P", "Q", "R", "S", "T", "U", "V", "W", "X", "Y", "Z">>

LowerLetters == <<"a", "b", "c", "d", "e", "f", "g", "h", "i", "j", "k", "l", "m",
                  "n", "o", "p", "q", "r", "s", "t", "u", "v", "w", "x", "y", "z">>

Digits == <<"0", "1", "2", "3", "4", "5", "6", "7", "8", "9">>

\* strings.ToLower on one character
ToLowerChar(c) ==
    IF \E i \in 1..26 : UpperLetters[i] = c
    THEN LowerLetters[CHOOSE i \in 1..26 : UpperLetters[i] = c]
    ELSE c

\* slugMatcher = [^a-z0-9]+ : whether c is outside the class it replaces
SlugClass == Range(LowerLetters) \cup Range(Digits)

SlugKeeps(c) == c \in SlugClass

\* slugMatcher.ReplaceAllString(strings.ToLower(input), "-"): every maximal
\* run of other characters becomes one "-"
RECURSIVE SlugReplace(_)
SlugReplace(s) ==
    IF Len(s) = 0 THEN <<>>
    ELSE LET c == ToLowerChar(s[1].c)
             rest == SlugReplace(Tail(s))
         IN  IF SlugKeeps(c) THEN Concat(Str(c, s[1].n), rest)
             ELSE IF Len(rest) > 0 /\ rest[1].c = "-"
             THEN rest
             ELSE <<[c |-> "-", n |-> 1]>> \o rest

\* strings.Trim(slug, "-")
TrimDashes(s) ==
    LET a == IF Len(s) > 0 /\ s[1].c = "-" THEN Tail(s) ELSE s
    IN  IF Len(a) > 0 /\ a[Len(a)].c = "-" THEN SubSeq(a, 1, Len(a) - 1) ELSE a

Slugify(input) ==
    LET slug == TrimDashes(SlugReplace(input))
    IN  IF Len(slug) = 0 THEN Lit(<<"d", "o", "c">>) ELSE slug

\* the decimal digits of a number 0..99, as %d prints it
Decimal(k) ==
    IF k < 10 THEN Str(Digits[k + 1], 1)
    ELSE Concat(Str(Digits[(k \div 10) + 1], 1), Str(Digits[(k % 10) + 1], 1))

-----------------------------------------------------------------------------
(* ChunkDocuments: the chunker, whose source is not among the files        *)
(* modelled here; it follows section 4.1 of the specification.             *)

DefaultChunkSize == 1200

\* windows that go on while a next start lies inside the content, the
\* variant C19 is tested against
RECURSIVE ChunkWindowsTrailing(_, _, _, _)
ChunkWindowsTrailing(n, size, step, start) ==
    IF n = 0 THEN <<>>
    ELSE LET end == Min(start + size, n)
         IN  <<[from |-> start, to |-> end]>>
             \o (IF start + step >= n THEN <<>>
                 ELSE ChunkWindowsTrailing(n, size, step, start + step))

\* the window starts and ends (0-based, end exclusive) over a content of
\* length n
RECURSIVE ChunkWindows(_, _, _, _)
ChunkWindows(n, size, step, start) ==
    IF n = 0 THEN <<>>
    ELSE LET end == Min(start + size, n)
         IN  <<[from |-> start, to |-> end]>>
             \o (IF end >= n THEN <<>> ELSE ChunkWindows(n, size, step, start + step))

\* a step one character longer than the window, the variant C18 is tested
\* against
ChunkStepGapped(size, overlap) == size + 1

ChunkStep(size, overlap) ==
    LET ov == IF overlap >= size THEN size \div 4 ELSE overlap
        step == size - ov
    IN  IF step <= 0 THEN size ELSE step

\* "<documentId>-chunk-<index>"
ChunkID(documentId, index) ==
    Concat(Concat(documentId, Lit(<<"-", "c", "h", "u", "n", "k", "-">>)), Decimal(index))

ChunkDocument(doc, opts) ==
    LET size == IF opts.Size <= 0 THEN DefaultChunkSize ELSE opts.Size
        overlap == IF opts.Overlap < 0 THEN 0 ELSE opts.Overlap
        ws == ChunkWindows(StrLen(doc.Content), size, ChunkStep(size, overlap), 0)
    IN  [i \in 1..Len(ws) |->
            [ID |-> ChunkID(doc.ID, i - 1), DocumentID |-> doc.ID,
             Source |-> doc.Title, URI |-> doc.URI,
             Text |-> StrSlice(doc.Content, ws[i].from, ws[i].to),
             Index |-> i - 1, Embedding |-> NilSlice]]

RECURSIVE ChunkDocuments(_, _)
ChunkDocuments(docs, opts) ==
    IF Len(docs) = 0 THEN <<>>
    ELSE ChunkDocument(docs[1], opts) \o ChunkDocuments(Tail(docs), opts)

-----------------------------------------------------------------------------
(* cosineSimilarity.  Vectors are slices of integers.  The float64      *)
(* result c is kept as the exact rational sign(c) * c^2 in units of        *)
(* 1/ScoreScale: x |-> sign(x) * x^2 is strictly increasing on [-1, 1],    *)
(* so every comparison of two scores has the outcome it has in the code,   *)
(* c = 0 is 0 and c = 1 is ScoreScale.                                     *)

ScoreScale == 4

\* the loop "for i < n-3" that consumes four components at a time:
\* the index at which it stops, having started at i
RECURSIVE UnrolledEnd(_, _)
UnrolledEnd(i, n) == IF i < n - 3 THEN UnrolledEnd(i + 4, n) ELSE i

\* sum of a[k]*b[k] over the 0-based indices from..to-1
RECURSIVE SumProducts(_, _, _, _)
SumProducts(a, b, from, to) ==
    IF from >= to THEN 0
    ELSE a[from + 1] * b[from + 1] + SumProducts(a, b, from + 1, to)

\* the accumulator after the unrolled loop and then the remainder loop
Accumulate(a, b) ==
    LET n == Len(a)
        stop == UnrolledEnd(0, n)
    IN  SumProducts(a, b, 0, stop) + SumProducts(a, b, stop, n)

Sign(x) == IF x > 0 THEN 1 ELSE IF x < 0 THEN -1 ELSE 0

\* a similarity that ranks a vector of another length below every other,
\* the variant C13 is tested against
cosineSimilarityPenalising(a, b) ==
    IF SliceLen(a) = 0 \/ SliceLen(b) = 0 THEN 0
    ELSE IF SliceLen(a) # SliceLen(b) THEN 0 - ScoreScale
    ELSE LET dot == Accumulate(a.elems, b.elems)
             magA == Accumulate(a.elems, a.elems)
             magB == Accumulate(b.elems, b.elems)
         IN  IF magA = 0 \/ magB = 0 THEN 0
             ELSE (Sign(dot) * dot * dot * ScoreScale) \div (magA * magB)

cosineSimilarity(a, b) ==
    IF SliceLen(a) = 0 \/ SliceLen(b) = 0 \/ SliceLen(a) # SliceLen(b) THEN 0
    ELSE LET dot == Accumulate(a.elems, b.elems)
             magA == Accumulate(a.elems, a.elems)
             magB == Accumulate(b.elems, b.elems)
         IN  IF magA = 0 \/ magB = 0 THEN 0
             ELSE (Sign(dot) * dot * dot * ScoreScale) \div (magA * magB)

-----------------------------------------------------------------------------
(* PriorityQueue under container/heap.  A queue is a sequence of items     *)
(* [chunk, score]; indices i, j are 0-based as in the Go code.             *)

\* the ordering of a max-heap, the variant C2 is tested against
LessDescending(pq, i, j) == pq[i + 1].score > pq[j + 1].score

Less(pq, i, j) == pq[i + 1].score < pq[j + 1].score

\* heap.up: sift the item at j towards the root
RECURSIVE HeapUp(_, _)
HeapUp(pq, j) ==
    LET i == IF j = 0 THEN 0 ELSE (j - 1) \div 2
    IN  IF i = j \/ ~Less(pq, j, i) THEN pq
        ELSE HeapUp(SwapAt(pq, i, j), i)

\* heap.down: sift the item at i towards the leaves of pq[0..n-1]
RECURSIVE HeapDown(_, _, _)
HeapDown(pq, i, n) ==
    LET j1 == 2 * i + 1
    IN  IF j1 >= n THEN pq
        ELSE LET j2 == j1 + 1
                 j == IF j2 < n /\ Less(pq, j2, j1) THEN j2 ELSE j1
             IN  IF ~Less(pq, j, i) THEN pq
                 ELSE HeapDown(SwapAt(pq, i, j), j, n)

\* heap.Push: PriorityQueue.Push appends, then up from the last index
HeapPush(pq, item) == HeapUp(Append(pq, item), Len(pq))

\* heap.Pop: swap root and last, down over the first n-1, then
\* PriorityQueue.Pop removes the last.  The queue that is left:
HeapPopRest(pq) ==
    LET n == Len(pq) - 1
    IN  SubSeq(HeapDown(SwapAt(pq, 0, n), 0, n), 1, n)

\* and the item heap.Pop returns (the root before the call)
HeapPopItem(pq) == pq[1]

-----------------------------------------------------------------------------
(* VectorStore.Search                                                      *)

DefaultSearchTopK == 4

\* a test that also lets a candidate of the worst score in, the variant C24
\* is tested against
EvictsOnTie(score, worst) == score >= worst.score

\* "if score > worst.score": the candidate takes the place of the root
Evicts(score, worst) == score > worst.score

\* the loop over vs.Chunks: the queue after the first n chunks
RECURSIVE SearchHeap(_, _, _, _)
SearchHeap(chunks, query, topK, n) ==
    IF n = 0 THEN <<>>
    ELSE LET pq == SearchHeap(chunks, query, topK, n - 1)
             chunk == chunks[n]
             score == cosineSimilarity(query, chunk.Embedding)
             item == [chunk |-> chunk, score |-> score]
         IN  IF Len(pq) < topK THEN HeapPush(pq, item)
             ELSE LET worst == pq[1]
                  IN  IF Evicts(score, worst)
                      THEN HeapPush(HeapPopRest(pq), item)
                      ELSE pq

\* the items in the order successive heap.Pop calls return them
RECURSIVE DrainHeap(_)
DrainHeap(pq) ==
    IF Len(pq) = 0 THEN <<>>
    ELSE <<HeapPopItem(pq)>> \o DrainHeap(HeapPopRest(pq))

\* "for i := pq.Len() - 1; i >= 0; i--  results[i] = heap.Pop(&pq)":
\* the k-th popped item (k = 1, 2, ...) is stored at 0-based index n-k
ExtractResults(pq) ==
    LET popped == DrainHeap(pq)
        n == Len(popped)
    IN  [p \in 1..n |->
            [Chunk |-> popped[n + 1 - p].chunk, Score |-> popped[n + 1 - p].score]]

\* "for i, j := 0, len(results)-1; i < j; ... swap"
ReverseResults(results) == Reverse(results)

\* a search for which a topK of zero or less means all chunks, the variant
\* C14 is tested against
SearchAllByDefault(vsNil, chunks, query, topKArg) ==
    IF vsNil \/ SliceLen(query) = 0 THEN <<>>
    ELSE LET topK == IF topKArg <= 0 THEN Len(chunks) ELSE topKArg
         IN  IF Len(chunks) = 0 THEN <<>>
             ELSE ReverseResults(
                      ExtractResults(SearchHeap(chunks, query, topK, Len(chunks))))

\* a search that leaves out the chunks whose embedding has another length
\* than the query, the variant C30 is tested against
SearchComparableOnly(vsNil, chunks, query, topKArg) ==
    IF vsNil \/ SliceLen(query) = 0 THEN <<>>
    ELSE LET topK == IF topKArg <= 0 THEN DefaultSearchTopK ELSE topKArg
             comparable == SelectSeq(chunks,
                               LAMBDA c : SliceLen(c.Embedding) = SliceLen(query))
         IN  IF Len(comparable) = 0 THEN <<>>
             ELSE ReverseResults(
                      ExtractResults(SearchHeap(comparable, query, topK, Len(comparable))))

\* chunks is vs.Chunks as a sequence (<<>> when vs is nil)
Search(vsNil, chunks, query, topKArg) ==
    IF vsNil \/ SliceLen(query) = 0 THEN <<>>
    ELSE LET topK == IF topKArg <= 0 THEN DefaultSearchTopK ELSE topKArg
         IN  IF Len(chunks) = 0 THEN <<>>
             ELSE ReverseResults(
                      ExtractResults(SearchHeap(chunks, query, topK, Len(chunks))))

-----------------------------------------------------------------------------
(* SpecSearch: Search applied to every store of at most MaxSearchChunks    *)
(* chunks, every query vector and every topK in -1..MaxTopK.               *)
(* MaxLargeStore is the size of the largest store searched.                *)

Pending == <<[Pending |-> TRUE]>>

\* stored embeddings: absent, of the query's dimension (one of them of
\* magnitude zero), of another dimension, and long enough for the unrolled
\* loop to run
SearchEmbeddings ==
    {NilSlice, Slice(<<1, 0>>), Slice(<<0, 1>>), Slice(<<1, 1>>),
     Slice(<<-1, 0>>), Slice(<<0, 0>>), Slice(<<1, 0, 0, 0, 1>>)}

SearchQueries ==
    {NilSlice, Slice(<<1, 0>>), Slice(<<1, 1>>), Slice(<<0, 0>>),
     Slice(<<1, 0, 0, 0, 0>>)}

\* the i-th chunk of a store under search; its ID is its position
SearchChunk(i, e) ==
    [ID |-> i, DocumentID |-> "doc", Source |-> "src", URI |-> "uri",
     Text |-> <<>>, Index |-> i - 1, Embedding |-> e]

\* the embeddings of the stores of more than MaxSearchChunks chunks
LargeStoreEmbeddings == {Slice(<<1, 0>>), Slice(<<0, 1>>)}

\* every store of at most MaxSearchChunks chunks, and the stores of up to
\* MaxLargeStore chunks (more than the default topK) of two embeddings
SearchStores ==
    UNION {{[i \in 1..n |-> SearchChunk(i, es[i])] :
               es \in [1..n -> SearchEmbeddings]} : n \in 0..MaxSearchChunks}
    \cup
    UNION {{[i \in 1..n |-> SearchChunk(i, es[i])] :
               es \in [1..n -> LargeStoreEmbeddings]} :
                  n \in (MaxSearchChunks + 1)..MaxLargeStore}

SearchInputs ==
    {[vsNil |-> TRUE, chunks |-> <<>>, query |-> q, topK |-> k] :
        q \in SearchQueries, k \in -1..MaxTopK}
    \cup
    {[vsNil |-> FALSE, chunks |-> cs, query |-> q, topK |-> k] :
        cs \in SearchStores, q \in SearchQueries, k \in -1..MaxTopK}

SearchIdle == searchIn = [vsNil |-> TRUE, chunks |-> <<>>, query |-> NilSlice, topK |-> 0]
              /\ searchOut = Pending

CallSearch ==
    /\ searchOut = Pending
    /\ searchOut' = Search(searchIn.vsNil, searchIn.chunks, searchIn.query, searchIn.topK)
    /\ UNCHANGED <<searchIn, buildVars, serviceVars, chunkVars>>

-----------------------------------------------------------------------------
(* SpecChunk: ChunkDocuments applied to one document of every length up to *)
(* MaxContentLen, under every Size in 0..MaxChunkSize and every Overlap in *)
(* 0..MaxOverlap.  The content holds a different character at every        *)
(* position, so that a chunk's text tells where its window lies.           *)

\* the content of length n: the characters "1", "2", ... in order
PositionContent(n) == Lit(SubSeq(Digits, 2, n + 1))

ChunkedDocument(n) ==
    [ID |-> Str("d", 1), Title |-> Str("D", 1), URI |-> Str("f", 1),
     Source |-> Str("s", 1), Content |-> PositionContent(n)]

ChunkInputs ==
    {[docs |-> <<ChunkedDocument(n)>>, opts |-> [Size |-> size, Overlap |-> overlap]] :
        n \in 0..MaxContentLen, size \in 0..MaxChunkSize, overlap \in 0..MaxOverlap}

ChunkIdle ==
    /\ chunkIn = [docs |-> <<>>, opts |-> [Size |-> 0, Overlap |-> 0]]
    /\ chunkOut = Pending

CallChunk ==
    /\ chunkOut = Pending
    /\ chunkOut' = ChunkDocuments(chunkIn.docs, chunkIn.opts)
    /\ UNCHANGED <<chunkIn, searchVars, buildVars, serviceVars>>

-----------------------------------------------------------------------------
(* BuildVectorStore.  One action per call of embedder.Embed, each with the *)
(* code that follows the call up to the next call or the return.  bTrace   *)
(* records what the function does to the outside: the Embed calls (batch   *)
(* range, texts, outcome, response) and the time.Sleep calls (in ms).      *)

DefaultBatchSize == 16
maxRetries == 5
Second == 1000

\* time.Time: the wall clock reading, whether a monotonic reading is
\* attached, and the location
ZeroTime == [wall |-> 0, mono |-> FALSE, loc |-> "UTC"]

\* Metadata{}
ZeroMeta == [GeneratedAt |-> ZeroTime, SourceCount |-> 0, ChunkCount |-> 0,
             Notes |-> NilSlice]

\* a nil *VectorStore
NoStore == [nil |-> TRUE, Metadata |-> ZeroMeta, Chunks |-> NilSlice]

StoreOf(meta, chunks) == [nil |-> FALSE, Metadata |-> meta, Chunks |-> chunks]

EmbedEvent(start, end, texts, outcome, resp) ==
    [kind |-> "Embed", start |-> start, end |-> end, texts |-> texts,
     outcome |-> outcome, resp |-> resp, ms |-> 0]

SleepEvent(ms) ==
    [kind |-> "Sleep", start |-> 0, end |-> 0, texts |-> <<>>,
     outcome |-> "", resp |-> <<>>, ms |-> ms]

\* the events of s of one kind, in order
RECURSIVE OfKind(_, _)
OfKind(s, kind) ==
    IF Len(s) = 0 THEN <<>>
    ELSE (IF s[1].kind = kind THEN <<s[1]>> ELSE <<>>) \o OfKind(Tail(s), kind)

\* "if batchSize <= 0 { batchSize = 16 }"
BuildBatchSize(batchSize) == IF batchSize <= 0 THEN DefaultBatchSize ELSE batchSize

\* "end := start + batchSize; if end > len(chunks) { end = len(chunks) }"
BatchEnd(start, batchSize, n) == Min(start + batchSize, n)

\* the guards without the check for an empty chunk list, the variant C4 is
\* tested against
BuildValidateEmbedderOnly(embedderNil, n) ==
    IF embedderNil THEN "embedder is required" ELSE ""

\* the guards that return before the loop: the error, or "" to go on
BuildValidate(embedderNil, n) ==
    IF embedderNil THEN "embedder is required"
    ELSE IF n = 0 THEN "no chunks supplied"
    ELSE ""

\* a backoff of one second whatever the attempt, the variant C20 is tested
\* against
BackoffSleepsConstant(attempt) ==
    IF attempt < maxRetries - 1 THEN <<SleepEvent(1 * Second)>> ELSE <<>>

\* a backoff that also sleeps after the last attempt, the variant C3 is
\* tested against
BackoffSleepsAlways(attempt) == <<SleepEvent((attempt + 1) * 1 * Second)>>

\* "if attempt < maxRetries-1 { time.Sleep((attempt+1) * 1 * time.Second) }"
BackoffSleeps(attempt) ==
    IF attempt < maxRetries - 1 THEN <<SleepEvent((attempt + 1) * 1 * Second)>>
    ELSE <<>>

\* a pacing sleep after every batch, the last included, the variant C21 is
\* tested against
PacingSleepsAlways(start, batchSize, n) == <<SleepEvent(1 * Second)>>

\* "if start+batchSize < len(chunks) { time.Sleep(1 * time.Second) }"
PacingSleeps(start, batchSize, n) ==
    IF start + batchSize < n THEN <<SleepEvent(1 * Second)>> ELSE <<>>

\* the vector a provider returns for text number i of its call number c:
\* a value that identifies the call and the position
ResponseVector(c, i) == Slice(<<c, i>>)

\* an assignment that forgets the batch offset, the variant C5 is tested
\* against
AssignEmbeddingsFromZero(chunks, start, end, embeddings) ==
    [p \in 1..Len(chunks) |->
        IF p <= end - start /\ p <= Len(embeddings)
        THEN [chunks[p] EXCEPT !.Embedding = embeddings[p]]
        ELSE chunks[p]]

\* "for i := range batch { chunks[start+i].Embedding = embeddings[i] }",
\* run while embeddings[i] exists; the loop panics at the first i that
\* does not
AssignEmbeddings(chunks, start, end, embeddings) ==
    [p \in 1..Len(chunks) |->
        IF p > start /\ p <= end /\ p - start <= Len(embeddings)
        THEN [chunks[p] EXCEPT !.Embedding = embeddings[p - start]]
        ELSE chunks[p]]

BatchTexts(chunks, start, end) == [i \in 1..(end - start) |-> chunks[start + i].Text]

BuildEnter ==
    /\ bPc = "start"
    /\ LET err == BuildValidate(bIn.embedderNil, Len(bChunks))
       IN  IF err # ""
           THEN /\ bPc' = "done"
                /\ bResult' = [store |-> NoStore, err |-> err]
           ELSE IF 0 < Len(bChunks)
           THEN /\ bPc' = "embed"
                /\ UNCHANGED bResult
           ELSE \* the loop body never runs
                /\ bPc' = "done"
                /\ bResult' = [store |-> StoreOf(bIn.meta, Slice(bChunks)), err |-> ""]
    /\ bStart' = 0
    /\ bAttempt' = 0
    /\ UNCHANGED <<bIn, bChunks, bTrace, bCancelAt, searchVars, serviceVars, chunkVars>>

\* embedder.Embed returns an error
BuildEmbedFails ==
    /\ bPc = "embed"
    /\ LET batchSize == BuildBatchSize(bIn.batchSize)
           end == BatchEnd(bStart, batchSize, Len(bChunks))
           call == EmbedEvent(bStart, end, BatchTexts(bChunks, bStart, end), "err", <<>>)
       IN  /\ bTrace' = bTrace \o <<call>> \o BackoffSleeps(bAttempt)
           /\ IF bAttempt + 1 < maxRetries
              THEN /\ bAttempt' = bAttempt + 1
                   /\ UNCHANGED <<bPc, bResult>>
              ELSE /\ bAttempt' = bAttempt + 1
                   /\ bPc' = "done"
                   /\ bResult' = [store |-> NoStore,
                                  err |-> "failed to embed batch"]
    /\ UNCHANGED <<bIn, bChunks, bStart, bCancelAt, searchVars, serviceVars, chunkVars>>

\* embedder.Embed returns no error and the vectors resp: one per text or
\* fewer.  An embedder sends its request with ctx, so it returns no vectors
\* once ctx is cancelled
BuildEmbedResponds(resp) ==
    /\ bPc = "embed"
    /\ bCancelAt = -1
    /\ LET batchSize == BuildBatchSize(bIn.batchSize)
           n == Len(bChunks)
           end == BatchEnd(bStart, batchSize, n)
           short == end - bStart - Len(resp)
           call == EmbedEvent(bStart, end, BatchTexts(bChunks, bStart, end),
                              IF short = 0 THEN "ok" ELSE "short", resp)
           assigned == AssignEmbeddings(bChunks, bStart, end, resp)
       IN  /\ short >= 0
           /\ bChunks' = assigned
           /\ IF short > 0
              THEN \* index out of range in the assignment loop
                   /\ bTrace' = bTrace \o <<call>>
                   /\ bPc' = "done"
                   /\ bResult' = [store |-> NoStore, err |-> "panic"]
                   /\ UNCHANGED <<bStart, bAttempt>>
              ELSE /\ bTrace' = bTrace \o <<call>> \o PacingSleeps(bStart, batchSize, n)
                   /\ bStart' = bStart + batchSize
                   /\ bAttempt' = 0
                   /\ IF bStart + batchSize < n
                      THEN UNCHANGED <<bPc, bResult>>
                      ELSE /\ bPc' = "done"
                           /\ bResult' = [store |-> StoreOf(bIn.meta, Slice(assigned)),
                                          err |-> ""]
    /\ UNCHANGED <<bIn, bCancelAt, searchVars, serviceVars, chunkVars>>

\* the provider answers with the vectors that identify the call, one per
\* text (short = 0) or fewer (short > 0)
BuildEmbedReturns(short) ==
    /\ bPc = "embed"
    /\ LET end == BatchEnd(bStart, BuildBatchSize(bIn.batchSize), Len(bChunks))
           callNo == Len(OfKind(bTrace, "Embed")) + 1
       IN  /\ short <= end - bStart
           /\ BuildEmbedResponds([i \in 1..(end - bStart - short) |->
                                      ResponseVector(callNo, i)])

BuildEmbedSucceeds == BuildEmbedReturns(0)

BuildEmbedShort == \E short \in 1..MaxBatchSize : BuildEmbedReturns(short)

\* the caller cancels ctx, before the call or between two calls of Embed
BuildCancel ==
    /\ bPc \in {"start", "embed"}
    /\ bCancelAt = -1
    /\ bCancelAt' = Len(bTrace)
    /\ UNCHANGED <<bPc, bIn, bChunks, bStart, bAttempt, bTrace, bResult,
                   searchVars, serviceVars, chunkVars>>

\* the caller's chunks: chunk i of the slice has its own text and no embedding
BuildChunk(i) ==
    [ID |-> i, DocumentID |-> "doc", Source |-> "src", URI |-> "uri",
     Text |-> Str("a", i), Index |-> i - 1, Embedding |-> NilSlice]

BuildMeta == [GeneratedAt |-> ZeroTime, SourceCount |-> 1, ChunkCount |-> 0,
              Notes |-> NilSlice]

\* number of batches of a run over n chunks
BatchCount(n, batchSize) ==
    (n + BuildBatchSize(batchSize) - 1) \div BuildBatchSize(batchSize)

BuildInputs ==
    {in \in [embedderNil : BOOLEAN, batchSize : -1..MaxBatchSize,
             n : 0..MaxBuildChunks, meta : {BuildMeta}] :
        BatchCount(in.n, in.batchSize) <= MaxBatches}

BuildIdle ==
    /\ bPc = "idle"
    /\ bIn = [embedderNil |-> TRUE, batchSize |-> 0, n |-> 0, meta |-> BuildMeta]
    /\ bChunks = <<>>
    /\ bStart = 0
    /\ bAttempt = 0
    /\ bTrace = <<>>
    /\ bResult = [store |-> NoStore, err |-> ""]
    /\ bCancelAt = -1

-----------------------------------------------------------------------------
(* time.Time and its JSON form.                                            *)

\* time.Now() at clock reading t: local, with a monotonic reading
TimeNow(t) == [wall |-> t, mono |-> TRUE, loc |-> "Local"]

\* Time.UTC(): the same instant in UTC, the monotonic reading stripped
UTC(t) == [t EXCEPT !.mono = FALSE, !.loc = "UTC"]

\* Time.MarshalJSON: RFC 3339 with the zone, "Z" for UTC
MarshalTime(t) ==
    [t |-> "time", wall |-> t.wall, zone |-> IF t.loc = "UTC" THEN "Z" ELSE "+hh:mm"]

\* Time.UnmarshalJSON: "Z" parses to UTC, the local offset to Local
UnmarshalTime(j) ==
    [wall |-> j.wall, mono |-> FALSE, loc |-> IF j.zone = "Z" THEN "UTC" ELSE "Local"]

-----------------------------------------------------------------------------
(* encoding/json on VectorStore.  A JSON value is a record tagged by t; an *)
(* object is a sequence of members [k, v] in the order of the struct's     *)
(* fields, named by their json tags.                                       *)

JNull == [t |-> "null"]
JNum(n) == [t |-> "num", n |-> n]
JStr(s) == [t |-> "str", s |-> s]
JArr(items) == [t |-> "arr", items |-> items]
JObj(members) == [t |-> "obj", members |-> members]

\* a string as the encoder writes it and the decoder reads it back: a byte
\* that is not valid UTF-8 becomes U+FFFD
JsonString(s) ==
    [i \in 1..Len(s) |-> IF s[i].c = "0xC3" THEN [c |-> "U+FFFD", n |-> s[i].n] ELSE s[i]]

\* a []float32 or []string: null for a nil slice, an array otherwise
MarshalNumbers(v) ==
    IF v.nil THEN JNull ELSE JArr([i \in 1..Len(v.elems) |-> JNum(v.elems[i])])

MarshalStrings(v) ==
    IF v.nil THEN JNull ELSE JArr([i \in 1..Len(v.elems) |-> JStr(JsonString(v.elems[i]))])

MarshalChunk(c) ==
    JObj(<<[k |-> "id", v |-> JStr(JsonString(c.ID))],
           [k |-> "documentId", v |-> JStr(JsonString(c.DocumentID))],
           [k |-> "source", v |-> JStr(JsonString(c.Source))],
           [k |-> "uri", v |-> JStr(JsonString(c.URI))],
           [k |-> "text", v |-> JStr(JsonString(c.Text))],
           [k |-> "index", v |-> JNum(c.Index)],
           [k |-> "embedding", v |-> MarshalNumbers(c.Embedding)]>>)

MarshalMetadata(m) ==
    JObj(<<[k |-> "generatedAt", v |-> MarshalTime(m.GeneratedAt)],
           [k |-> "sourceCount", v |-> JNum(m.SourceCount)],
           [k |-> "chunkCount", v |-> JNum(m.ChunkCount)],
           [k |-> "notes", v |-> MarshalStrings(m.Notes)]>>)

\* json.MarshalIndent(vs, "", "  ")
MarshalStore(vs) ==
    JObj(<<[k |-> "metadata", v |-> MarshalMetadata(vs.Metadata)],
           [k |-> "chunks",
            v |-> IF vs.Chunks.nil THEN JNull
                  ELSE JArr([i \in 1..Len(vs.Chunks.elems) |->
                                MarshalChunk(vs.Chunks.elems[i])])]>>)

\* the value of the member named key
Member(obj, key) ==
    obj.members[CHOOSE i \in 1..Len(obj.members) : obj.members[i].k = key].v

\* a JSON array read into a slice: null leaves the nil slice, an array
\* (even an empty one) makes a non-nil slice
UnmarshalNumbers(j) ==
    IF j.t = "null" THEN NilSlice ELSE Slice([i \in 1..Len(j.items) |-> j.items[i].n])

UnmarshalStrings(j) ==
    IF j.t = "null" THEN NilSlice ELSE Slice([i \in 1..Len(j.items) |-> j.items[i].s])

UnmarshalChunk(j) ==
    [ID |-> Member(j, "id").s, DocumentID |-> Member(j, "documentId").s,
     Source |-> Member(j, "source").s, URI |-> Member(j, "uri").s,
     Text |-> Member(j, "text").s, Index |-> Member(j, "index").n,
     Embedding |-> UnmarshalNumbers(Member(j, "embedding"))]

UnmarshalMetadata(j) ==
    [GeneratedAt |-> UnmarshalTime(Member(j, "generatedAt")),
     SourceCount |-> Member(j, "sourceCount").n,
     ChunkCount |-> Member(j, "chunkCount").n,
     Notes |-> UnmarshalStrings(Member(j, "notes"))]

\* json.Unmarshal(data, &store)
UnmarshalStore(j) ==
    LET cs == Member(j, "chunks")
    IN  StoreOf(UnmarshalMetadata(Member(j, "metadata")),
                IF cs.t = "null" THEN NilSlice
                ELSE Slice([i \in 1..Len(cs.items) |-> UnmarshalChunk(cs.items[i])]))

\* the file at the index path: absent, or holding a document that is
\* complete or cut short
NoFile == [exists |-> FALSE, complete |-> FALSE, json |-> JNull]

File(j) == [exists |-> TRUE, complete |-> TRUE, json |-> j]

CutFile(j) == [exists |-> TRUE, complete |-> FALSE, json |-> j]

\* VectorStore.Save: the file after the call and the error.  fault is what
\* the file system does: "" nothing, "mkdir" MkdirAll fails, "write"
\* WriteFile fails after it has truncated the file and written a part
Save(vs, file, fault) ==
    IF fault = "mkdir" THEN [disk |-> file, err |-> "mkdir"]
    ELSE IF fault = "write" THEN [disk |-> CutFile(MarshalStore(vs)), err |-> "write"]
    ELSE [disk |-> File(MarshalStore(vs)), err |-> ""]

\* LoadVectorStore
LoadVectorStore(file) ==
    IF ~file.exists THEN [store |-> NoStore, err |-> "read file"]
    ELSE IF ~file.complete THEN [store |-> NoStore, err |-> "unmarshal"]
    ELSE [store |-> UnmarshalStore(file.json), err |-> ""]

-----------------------------------------------------------------------------
(* The Service.  What a call does to the providers is recorded as a trace  *)
(* of events: Embed (texts, outcome), Search, Complete (prompt, outcome)   *)
(* and Sleep (ms).  A provider outcome is [kind, vec]: "err" an error,     *)
(* "none" no error and zero vectors, "vec" no error and the vector vec     *)
(* first.                                                                  *)

DefaultTopK == 4
SnippetLimit == 400
AddSourceChunkSize == 1400
AddSourceChunkOverlap == 200
AddSourcePauseMs == 500
DefaultTemperatureTenths == 2

NoPrompt == [question |-> <<>>, sections |-> <<>>]

SvcEvent(kind, texts, outcome, ms, prompt, temperature) ==
    [kind |-> kind, texts |-> texts, outcome |-> outcome, ms |-> ms,
     prompt |-> prompt, temperature |-> temperature]

EmbedCall(texts, outcome) == SvcEvent("Embed", texts, outcome, 0, NoPrompt, 0)
SearchCall == SvcEvent("Search", <<>>, "", 0, NoPrompt, 0)
CompleteCall(prompt, temperature, outcome) ==
    SvcEvent("Complete", <<>>, outcome, 0, prompt, temperature)
SleepCall(ms) == SvcEvent("Sleep", <<>>, "", ms, NoPrompt, 0)

Ellipsis == Str(".", 3)

\* NewService: "if topK <= 0 { topK = DefaultTopK }"
NewServiceTopK(cfgTopK) == IF cfgTopK <= 0 THEN DefaultTopK ELSE cfgTopK

\* buildPrompt: the numbered context sections in the order of matches,
\* then the question
buildPrompt(question, matches) ==
    [question |-> question,
     sections |-> [i \in 1..Len(matches) |->
                      [n |-> i, Source |-> matches[i].Chunk.Source,
                       URI |-> matches[i].Chunk.URI, Text |-> matches[i].Chunk.Text]]]

\* the snippet of a source attribution
Snippet(text) ==
    LET snippet == TrimSpace(text)
    IN  IF ByteLen(snippet) > SnippetLimit
        THEN Concat(BytePrefix(snippet, SnippetLimit), Ellipsis)
        ELSE snippet

Attribution(match) ==
    [Title |-> match.Chunk.Source, URI |-> match.Chunk.URI,
     Snippet |-> Snippet(match.Chunk.Text), Score |-> match.Score]

NoAnswer == [nil |-> TRUE, Answer |-> <<>>, Sources |-> <<>>]

\* the text a completion provider returns
CompletionText == Lit(<<" ", "o", "k", "\n">>)

\* validation that does not trim the question, the variant C8 is tested
\* against
AnswerValidateUntrimmed(vs, question) ==
    IF vs.nil THEN "rag service is not initialized"
    ELSE IF Len(question) = 0 THEN "question is required"
    ELSE ""

\* the two checks Answer makes before any work: the error, or ""
AnswerValidate(vs, question) ==
    IF vs.nil THEN "rag service is not initialized"
    ELSE IF Len(TrimSpace(question)) = 0 THEN "question is required"
    ELSE ""

\* the checks on what Embed returned: the error, or ""
QueryEmbeddingError(embedOut) ==
    IF embedOut.kind = "err" THEN "embed"
    ELSE IF embedOut.kind = "none" THEN "empty query embedding"
    ELSE ""

\* no check on what Search returned, the variant C9 is tested against
SearchErrorNever(matches) == ""

\* the check on what Search returned
SearchError(matches) == IF Len(matches) = 0 THEN "no context available" ELSE ""

AnswerFailure(err, trace, matches) ==
    [answer |-> NoAnswer, err |-> err, trace |-> trace, matches |-> matches]

\* Service.Answer.  vs is s.store; embedOut and completeOut are what the
\* providers do if they are called
Answer(vs, svcTopK, question, optTopK, optTemperature, embedOut, completeOut) ==
    LET trimmed == TrimSpace(question)
        topK == IF optTopK <= 0 THEN svcTopK ELSE optTopK
        temperature == IF optTemperature = 0 THEN DefaultTemperatureTenths
                       ELSE optTemperature
        embed == EmbedCall(<<trimmed>>, embedOut.kind)
        matches == Search(vs.nil, vs.Chunks.elems, embedOut.vec, topK)
        prompt == buildPrompt(trimmed, matches)
        complete == CompleteCall(prompt, temperature, completeOut)
    IN  IF AnswerValidate(vs, question) # ""
        THEN AnswerFailure(AnswerValidate(vs, question), <<>>, <<>>)
        ELSE IF QueryEmbeddingError(embedOut) # ""
        THEN AnswerFailure(QueryEmbeddingError(embedOut), <<embed>>, <<>>)
        ELSE IF SearchError(matches) # ""
        THEN AnswerFailure(SearchError(matches), <<embed, SearchCall>>, matches)
        ELSE IF completeOut = "err"
        THEN AnswerFailure("complete", <<embed, SearchCall, complete>>, matches)
        ELSE [answer |-> [nil |-> FALSE, Answer |-> TrimSpace(CompletionText),
                          Sources |-> [i \in 1..Len(matches) |-> Attribution(matches[i])]],
              err |-> "", trace |-> <<embed, SearchCall, complete>>,
              matches |-> matches]

\* the first chunk whose Embed call fails, or 0
FirstFailure(outs) ==
    IF \E i \in 1..Len(outs) : outs[i].kind = "err"
    THEN CHOOSE i \in 1..Len(outs) :
             outs[i].kind = "err" /\ \A j \in 1..(i - 1) : outs[j].kind # "err"
    ELSE 0

\* the loop "for i := range chunks" of AddSource: the chunks as it leaves
\* them, the trace, and the index of the chunk whose call failed (0: none)
EmbedEach(chunks, outs) ==
    LET f == FirstFailure(outs)
        n == IF f = 0 THEN Len(chunks) ELSE f
        step(i) == IF outs[i].kind = "err"
                   THEN <<EmbedCall(<<chunks[i].Text>>, "err")>>
                   ELSE <<EmbedCall(<<chunks[i].Text>>, outs[i].kind),
                          SleepCall(AddSourcePauseMs)>>
        Steps[i \in 0..n] == IF i = 0 THEN <<>> ELSE Steps[i - 1] \o step(i)
    IN  [chunks |-> [i \in 1..Len(chunks) |->
                        IF i <= n /\ outs[i].kind = "vec"
                        THEN [chunks[i] EXCEPT !.Embedding = outs[i].vec]
                        ELSE chunks[i]],
         trace |-> Steps[n],
         failed |-> f]

UserAddedSource ==
    Lit(<<"U", "s", "e", "r", " ", "A", "d", "d", "e", "d", " ",
          "S", "o", "u", "r", "c", "e">>)

UserInputScheme ==
    Lit(<<"u", "s", "e", "r", "-", "i", "n", "p", "u", "t", ":", "/", "/">>)

\* the Document AddSource builds
AddSourceDocument(titleArg, content, uriArg) ==
    LET title == IF Len(titleArg) = 0 THEN UserAddedSource ELSE titleArg
        uri == IF Len(uriArg) = 0 THEN Concat(UserInputScheme, title) ELSE uriArg
    IN  [ID |-> Slugify(title), Title |-> title, URI |-> uri,
         Source |-> Lit(<<"u", "s", "e", "r", "-", "a", "d", "d", "e", "d">>),
         Content |-> TrimSpace(content)]

AddSourceChunks(title, content, uri) ==
    ChunkDocuments(<<AddSourceDocument(title, content, uri)>>,
                   [Size |-> AddSourceChunkSize, Overlap |-> AddSourceChunkOverlap])

\* "time.Now()" without the conversion, the variant C10 is tested against
TimestampLocal(t) == TimeNow(t)

\* "time.Now().UTC()"
Timestamp(t) == UTC(TimeNow(t))

\* an append that counts one chunk per source, the variant C7 is tested
\* against
AppendSourceCountsOne(vs, chunks, t) ==
    [vs EXCEPT
        !.Chunks = GoAppend(vs.Chunks, chunks),
        !.Metadata.SourceCount = vs.Metadata.SourceCount + 1,
        !.Metadata.ChunkCount = vs.Metadata.ChunkCount + 1,
        !.Metadata.GeneratedAt = UTC(TimeNow(t))]

\* the store after the four statements that add the embedded chunks
AppendSource(vs, chunks, t) ==
    [vs EXCEPT
        !.Chunks = GoAppend(vs.Chunks, chunks),
        !.Metadata.SourceCount = vs.Metadata.SourceCount + 1,
        !.Metadata.ChunkCount = vs.Metadata.ChunkCount + Len(chunks),
        !.Metadata.GeneratedAt = Timestamp(t)]

\* an AddSource that keeps the chunks embedded before a failure, the
\* variant C6 is tested against
AddSourceKeepsPartial(vs, title, content, uri, outs, t) ==
    LET chunks == AddSourceChunks(title, content, uri)
        embedded == EmbedEach(chunks, outs)
    IN  IF vs.nil
        THEN [store |-> vs, err |-> "rag service is not initialized",
              trace |-> <<>>, added |-> <<>>]
        ELSE IF Len(content) = 0
        THEN [store |-> vs, err |-> "content cannot be empty",
              trace |-> <<>>, added |-> <<>>]
        ELSE IF embedded.failed # 0
        THEN [store |-> [vs EXCEPT !.Chunks =
                            GoAppend(vs.Chunks,
                                     SubSeq(embedded.chunks, 1, embedded.failed - 1))],
              err |-> "failed to embed chunk",
              trace |-> embedded.trace, added |-> <<>>]
        ELSE [store |-> [vs EXCEPT
                            !.Chunks = GoAppend(vs.Chunks, embedded.chunks),
                            !.Metadata.SourceCount = vs.Metadata.SourceCount + 1,
                            !.Metadata.ChunkCount = vs.Metadata.ChunkCount + Len(chunks),
                            !.Metadata.GeneratedAt = UTC(TimeNow(t))],
              err |-> "", trace |-> embedded.trace, added |-> embedded.chunks]

\* Service.AddSource.  outs[i] is what the provider does on the call for
\* chunk i; t is the clock
AddSource(vs, title, content, uri, outs, t) ==
    LET chunks == AddSourceChunks(title, content, uri)
        embedded == EmbedEach(chunks, outs)
    IN  IF vs.nil
        THEN [store |-> vs, err |-> "rag service is not initialized",
              trace |-> <<>>, added |-> <<>>]
        ELSE IF Len(content) = 0
        THEN [store |-> vs, err |-> "content cannot be empty",
              trace |-> <<>>, added |-> <<>>]
        ELSE IF embedded.failed # 0
        THEN [store |-> vs, err |-> "failed to embed chunk",
              trace |-> embedded.trace, added |-> <<>>]
        ELSE [store |-> AppendSource(vs, embedded.chunks, t), err |-> "",
              trace |-> embedded.trace, added |-> embedded.chunks]

\* Service.SaveStore
SaveStore(vs, file, fault) ==
    IF vs.nil THEN [disk |-> file, err |-> "rag service is not initialized"]
    ELSE Save(vs, file, fault)

-----------------------------------------------------------------------------
(* Configuration and construction of the service from the environment.    *)
(* An environment gives the values of RAG_PROVIDER, OPENAI_API_KEY and     *)
(* RAG_DEFAULT_TOP_K, "" for a variable that is not set.                   *)

ProviderOllama == Lit(<<"o", "l", "l", "a", "m", "a">>)

ProviderOpenAI == Lit(<<"o", "p", "e", "n", "a", "i">>)

DefaultProvider == ProviderOllama

\* strings.ToLower
RECURSIVE ToLower(_)
ToLower(s) ==
    IF Len(s) = 0 THEN <<>>
    ELSE Concat(Str(ToLowerChar(s[1].c), s[1].n), ToLower(Tail(s)))

firstNonEmpty(a, b) == IF Len(a) > 0 THEN a ELSE b

\* strconv.Atoi succeeds on a string of decimal digits (the values given
\* here carry no sign); anything else leaves the fallback
parseIntEnv(raw, fallback) ==
    LET digit(c) == CHOOSE d \in 0..9 : Digits[d + 1] = c
        isNumber == /\ Len(raw) > 0
                    /\ \A i \in 1..Len(raw) : raw[i].c \in Range(Digits) /\ raw[i].n = 1
        value[i \in 0..Len(raw)] ==
            IF i = 0 THEN 0 ELSE value[i - 1] * 10 + digit(raw[i].c)
    IN  IF isNumber THEN value[Len(raw)] ELSE fallback

\* LoadServiceConfigFromEnv: a provider that is neither "openai" nor
\* "ollama" is replaced by the default provider
LoadServiceConfigFromEnv(environ) ==
    LET named == ToLower(firstNonEmpty(environ.RAG_PROVIDER, DefaultProvider))
        provider == IF named # ProviderOpenAI /\ named # ProviderOllama
                    THEN DefaultProvider ELSE named
    IN  [Provider |-> provider,
         OpenAIAPIKey |-> environ.OPENAI_API_KEY,
         DefaultTopK |-> parseIntEnv(environ.RAG_DEFAULT_TOP_K, DefaultTopK)]

\* a provider handle is the name of its provider; "" is the nil handle
NewOpenAIEmbedder(apiKey) ==
    IF Len(apiKey) = 0 THEN [handle |-> "", err |-> "OPENAI_API_KEY is required"]
    ELSE [handle |-> "openai", err |-> ""]

NewOpenAIChatClient(apiKey) ==
    IF Len(apiKey) = 0 THEN [handle |-> "", err |-> "OPENAI_API_KEY is required"]
    ELSE [handle |-> "openai", err |-> ""]

NewEmbedder(cfg) ==
    IF cfg.Provider = ProviderOllama THEN [handle |-> "ollama", err |-> ""]
    ELSE IF cfg.Provider = ProviderOpenAI THEN NewOpenAIEmbedder(cfg.OpenAIAPIKey)
    ELSE [handle |-> "", err |-> "unsupported provider"]

NewChatClient(cfg) ==
    IF cfg.Provider = ProviderOllama THEN [handle |-> "ollama", err |-> ""]
    ELSE IF cfg.Provider = ProviderOpenAI THEN NewOpenAIChatClient(cfg.OpenAIAPIKey)
    ELSE [handle |-> "", err |-> "unsupported provider"]

\* a nil *Service
NoService == [nil |-> TRUE, store |-> NoStore, embedder |-> "", chatClient |-> "",
              defaultTopK |-> 0]

\* NewServiceFromEnv: the store is loaded first, then the provider handles
\* are made
NewServiceFromEnv(environ, file) ==
    LET cfg == LoadServiceConfigFromEnv(environ)
        loaded == LoadVectorStore(file)
        embedder == NewEmbedder(cfg)
        chatClient == NewChatClient(cfg)
    IN  IF loaded.err # "" THEN [service |-> NoService, err |-> "load vector store"]
        ELSE IF embedder.err # "" THEN [service |-> NoService, err |-> embedder.err]
        ELSE IF chatClient.err # "" THEN [service |-> NoService, err |-> chatClient.err]
        ELSE [service |-> [nil |-> FALSE, store |-> loaded.store,
                           embedder |-> embedder.handle,
                           chatClient |-> chatClient.handle,
                           defaultTopK |-> NewServiceTopK(cfg.DefaultTopK)],
              err |-> ""]

NoEnv == [RAG_PROVIDER |-> <<>>, OPENAI_API_KEY |-> <<>>, RAG_DEFAULT_TOP_K |-> <<>>]

\* the requests for "/api/rag/add-source" in progress.  Of each: where its
\* goroutine stands, the embedded chunks and the error of its AddSource
\* call, the values it has read from the shared store and not yet written
\* back, and the store as its SaveStore call saw it.  began lists the
\* requests in the order they began; overlapped tells whether one ever took
\* a step while another was in progress; before is the store they all began
\* with
Handlers == {1, 2}

IdleHandler ==
    [pc |-> "idle", chunks |-> <<>>, err |-> "", seen |-> NilSlice, count |-> 0,
     snapshot |-> NoStore]

NoHandlers ==
    [of |-> [h \in Handlers |-> IdleHandler], began |-> <<>>, overlapped |-> FALSE,
     before |-> NoStore]

-----------------------------------------------------------------------------
(* SpecService: a service and the calls made on it, one at a time.         *)

NoCall ==
    [op |-> "", err |-> "", trace |-> <<>>, question |-> <<>>, topK |-> 0,
     answer |-> NoAnswer, matches |-> <<>>, query |-> NilSlice,
     title |-> <<>>, content |-> <<>>, uri |-> <<>>, added |-> <<>>,
     before |-> NoStore, service |-> NoService]

EmbedError == [kind |-> "err", vec |-> NilSlice]
None == [kind |-> "none", vec |-> NilSlice]
Vec(v) == [kind |-> "vec", vec |-> v]

Questions == {Str(" ", 2), Lit(<<" ", "q", " ">>)}

\* the provider fails, returns no vector, an empty vector, a vector of the
\* stored dimension, and a vector of another dimension
QueryOutcomes ==
    {EmbedError, None, Vec(Slice(<<>>)), Vec(Slice(<<1, 0>>)), Vec(Slice(<<1, 0, 0>>))}

ChunkOutcomes == {EmbedError, None, Vec(Slice(<<1, 1>>))}

\* title and uri left blank, and both given
TitlesAndURIs == {[title |-> <<>>, uri |-> <<>>], [title |-> Str("A", 1), uri |-> Str("u", 1)]}

\* empty, blank, one window between blanks, two windows
Contents ==
    {<<>>, Str(" ", 1), Lit(<<" ", "a", " ">>),
     Concat(Str("a", AddSourceChunkSize), Str("b", 1))}

\* the outcomes of the calls for n chunks, those after a failure left out
\* of the choice (they are never made)
OutcomeSeqs(n) ==
    {outs \in [1..n -> ChunkOutcomes] :
        \A i \in 1..n : outs[i].kind = "err" =>
            \A j \in (i + 1)..n : outs[j] = EmbedError}

\* a store as ingestion leaves it: chunks embedded, counts from
\* MetadataForRun.  Chunk i holds a text of SnippetLimit - 1 + i characters:
\* the first fits a snippet exactly, the second is one character too long
BuiltChunk(i, e) ==
    [ID |-> ChunkID(Str("d", 1), i - 1), DocumentID |-> Str("d", 1),
     Source |-> Str("D", 1), URI |-> Str("f", 1),
     Text |-> Str("x", SnippetLimit - 1 + i),
     Index |-> i - 1, Embedding |-> e]

\* MetadataForRun
MetadataForRun(sourceCount, chunkCount, t) ==
    [GeneratedAt |-> Timestamp(t), SourceCount |-> sourceCount,
     ChunkCount |-> chunkCount, Notes |-> NilSlice]

BuiltStore ==
    StoreOf(MetadataForRun(1, 2, 0),
            Slice(<<BuiltChunk(1, Slice(<<1, 0>>)), BuiltChunk(2, Slice(<<0, 1>>))>>))

GrownStore ==
    AddSource(BuiltStore, <<>>, Lit(<<" ", "a", " ">>), <<>>, <<None>>, 0).store

\* a service without a store, with a store of no chunks, with a built
\* store, and with a built store to which a source was added
InitialStores == {NoStore, StoreOf(ZeroMeta, NilSlice), BuiltStore, GrownStore}

ServiceIdle ==
    /\ store = NoStore
    /\ disk = NoFile
    /\ saved = NoStore
    /\ now = 0
    /\ calls = 0
    /\ defaultTopK = DefaultTopK
    /\ last = NoCall
    /\ env = NoEnv
    /\ handlers = NoHandlers

InitService ==
    /\ SearchIdle
    /\ BuildIdle
    /\ ChunkIdle
    /\ store \in InitialStores
    /\ disk = NoFile
    /\ saved = NoStore
    /\ now = 1
    /\ calls = 0
    /\ defaultTopK \in {NewServiceTopK(k) : k \in 0..1}
    /\ last = NoCall
    /\ env = NoEnv
    /\ handlers = NoHandlers

AnswerCall ==
    /\ calls < MaxCalls
    /\ \E question \in Questions, topK \in 0..1,
          embedOut \in QueryOutcomes, completeOut \in {"ok", "err"} :
          LET r == Answer(store, defaultTopK, question, topK, 0, embedOut, completeOut)
          IN  last' = [NoCall EXCEPT !.op = "Answer", !.err = r.err,
                                     !.trace = r.trace, !.answer = r.answer,
                                     !.matches = r.matches,
                                     !.query = IF Len(r.trace) = 0 THEN NilSlice
                                               ELSE embedOut.vec,
                                     !.question = question, !.topK = topK]
    /\ calls' = calls + 1
    /\ UNCHANGED <<store, disk, saved, now, defaultTopK, env, handlers, searchVars, buildVars, chunkVars>>

AddSourceCall ==
    /\ calls < MaxCalls
    /\ \E tu \in TitlesAndURIs, content \in Contents :
       \E outs \in OutcomeSeqs(Len(AddSourceChunks(tu.title, content, tu.uri))) :
       \E r \in {AddSource(store, tu.title, content, tu.uri, outs, now)} :
          LET title == tu.title
              uri == tu.uri
          IN  /\ store' = r.store
              /\ last' = [NoCall EXCEPT !.op = "AddSource", !.err = r.err,
                                        !.trace = r.trace, !.added = r.added,
                                        !.title = title, !.content = content,
                                        !.uri = uri, !.before = store]
              /\ now' = IF r.err = "" THEN now + 1 ELSE now
    /\ calls' = calls + 1
    /\ UNCHANGED <<disk, saved, defaultTopK, env, handlers, searchVars, buildVars, chunkVars>>

SaveStoreCall ==
    /\ calls < MaxCalls
    /\ \E fault \in {"", "mkdir", "write"} :
          LET r == SaveStore(store, disk, fault)
          IN  /\ disk' = r.disk
              /\ saved' = IF r.err = "" THEN store ELSE saved
              /\ last' = [NoCall EXCEPT !.op = "SaveStore", !.err = r.err]
    /\ calls' = calls + 1
    /\ UNCHANGED <<store, now, defaultTopK, env, handlers, searchVars, buildVars, chunkVars>>

\* the process starts again: NewServiceFromEnv loads the store from the
\* index path; without a store there is no service
Restart ==
    /\ calls < MaxCalls
    /\ LET r == LoadVectorStore(disk)
       IN  /\ store' = r.store
           /\ last' = [NoCall EXCEPT !.op = "Restart", !.err = r.err]
    /\ calls' = calls + 1
    /\ UNCHANGED <<disk, saved, now, defaultTopK, env, handlers, searchVars, buildVars, chunkVars>>

NextService ==
    \/ AnswerCall
    \/ AddSourceCall
    \/ SaveStoreCall
    \/ Restart

-----------------------------------------------------------------------------
(* The specifications.                                                     *)

InitSearch ==
    /\ BuildIdle
    /\ ServiceIdle
    /\ ChunkIdle
    /\ searchIn \in SearchInputs
    /\ searchOut = Pending

NextSearch == CallSearch

InitBuild ==
    /\ SearchIdle
    /\ ServiceIdle
    /\ ChunkIdle
    /\ bIn \in BuildInputs
    /\ bPc = "start"
    /\ bChunks = [i \in 1..bIn.n |-> BuildChunk(i)]
    /\ bStart = 0
    /\ bAttempt = 0
    /\ bTrace = <<>>
    /\ bResult = [store |-> NoStore, err |-> ""]
    /\ bCancelAt = -1

NextBuild ==
    \/ BuildEnter
    \/ BuildEmbedFails
    \/ BuildEmbedSucceeds
    \/ BuildEmbedShort
    \/ BuildCancel

SpecSearch == InitSearch /\ [][NextSearch]_vars

SpecBuild == InitBuild /\ [][NextBuild]_vars

SpecService == InitService /\ [][NextService]_vars

InitChunk ==
    /\ SearchIdle
    /\ BuildIdle
    /\ ServiceIdle
    /\ chunkIn \in ChunkInputs
    /\ chunkOut = Pending

NextChunk == CallChunk

SpecChunk == InitChunk /\ [][NextChunk]_vars

(* SpecEndToEnd: three documents of 1500, 500 and 1500 characters are      *)
(* chunked with size 1200 and overlap 200, a store is built from the       *)
(* chunks with an embedder that answers every text with a unit vector, and *)
(* the store is searched with topK 3 for the embedding of one of its       *)
(* chunks.                                                                 *)

EndToEndDocument(i, n) ==
    [ID |-> Str("d", i), Title |-> Str("D", i), URI |-> Str("f", i),
     Source |-> Str("s", 1), Content |-> Str("x", n)]

EndToEndDocuments ==
    <<EndToEndDocument(1, 1500), EndToEndDocument(2, 500), EndToEndDocument(3, 1500)>>

\* the unit vector along axis i of n
UnitVector(i, n) == Slice([k \in 1..n |-> IF k = i THEN 1 ELSE 0])

\* BuildVectorStore is called with the chunks ChunkDocuments returned
StartBuild ==
    /\ bPc = "idle"
    /\ chunkOut # Pending
    /\ \E batchSize \in {0, 2} :
           bIn' = [embedderNil |-> FALSE, batchSize |-> batchSize,
                   n |-> Len(chunkOut), meta |-> BuildMeta]
    /\ bChunks' = chunkOut
    /\ bPc' = "start"
    /\ UNCHANGED <<bStart, bAttempt, bTrace, bResult, bCancelAt,
                   searchVars, serviceVars, chunkVars>>

\* the stub embedder answers each text of the batch with a unit vector
StubEmbedReturns ==
    /\ bPc = "embed"
    /\ LET n == Len(bChunks)
           end == BatchEnd(bStart, BuildBatchSize(bIn.batchSize), n)
       IN  \E axes \in [1..(end - bStart) -> 1..n] :
               BuildEmbedResponds([i \in 1..(end - bStart) |-> UnitVector(axes[i], n)])

\* the built store is searched with topK 3 for the embedding of its chunk j
SearchBuiltStore ==
    /\ bPc = "done"
    /\ bResult.err = ""
    /\ searchOut = Pending
    /\ \E j \in 1..SliceLen(bResult.store.Chunks) :
           LET chunks == bResult.store.Chunks.elems
               query == chunks[j].Embedding
           IN  /\ searchIn' = [vsNil |-> FALSE, chunks |-> chunks,
                               query |-> query, topK |-> 3]
               /\ searchOut' = Search(FALSE, chunks, query, 3)
    /\ UNCHANGED <<buildVars, serviceVars, chunkVars>>

InitEndToEnd ==
    /\ SearchIdle
    /\ BuildIdle
    /\ ServiceIdle
    /\ chunkIn = [docs |-> EndToEndDocuments, opts |-> [Size |-> 1200, Overlap |-> 200]]
    /\ chunkOut = Pending

NextEndToEnd ==
    \/ CallChunk
    \/ StartBuild
    \/ BuildEnter
    \/ StubEmbedReturns
    \/ SearchBuiltStore

SpecEndToEnd == InitEndToEnd /\ [][NextEndToEnd]_vars

(* SpecConfig: NewServiceFromEnv called once under every environment of   *)
(* Environments and every state of the index file.                         *)

\* RAG_PROVIDER: not set, the two providers in lower and in mixed case, and
\* three names of no provider
Providers ==
    {<<>>, ProviderOllama, ProviderOpenAI,
     Lit(<<"O", "p", "e", "n", "A", "I">>), Lit(<<"O", "L", "L", "A", "M", "A">>),
     Lit(<<"a", "z", "u", "r", "e">>), Lit(<<"o", "p", "e", "n", "a", "i", "2">>),
     Lit(<<"x">>)}

Environments ==
    {[RAG_PROVIDER |-> p, OPENAI_API_KEY |-> k, RAG_DEFAULT_TOP_K |-> t] :
        p \in Providers,
        k \in {<<>>, Lit(<<"s", "k">>)},
        t \in {<<>>, Lit(<<"0">>), Lit(<<"1", "2">>), Lit(<<"x">>)}}

\* the index file: missing, cut short, and holding a built store
IndexFiles ==
    {NoFile, CutFile(MarshalStore(BuiltStore)), File(MarshalStore(BuiltStore))}

CallNewServiceFromEnv ==
    /\ last.op = ""
    /\ LET r == NewServiceFromEnv(env, disk)
       IN  /\ store' = r.service.store
           /\ defaultTopK' = r.service.defaultTopK
           /\ last' = [NoCall EXCEPT !.op = "NewServiceFromEnv", !.err = r.err,
                                     !.service = r.service]
    /\ calls' = calls + 1
    /\ UNCHANGED <<disk, saved, now, env, handlers, searchVars, buildVars, chunkVars>>

InitConfig ==
    /\ SearchIdle
    /\ BuildIdle
    /\ ChunkIdle
    /\ store = NoStore
    /\ disk \in IndexFiles
    /\ saved = NoStore
    /\ now = 0
    /\ calls = 0
    /\ defaultTopK = 0
    /\ last = NoCall
    /\ env \in Environments
    /\ handlers = NoHandlers

NextConfig == CallNewServiceFromEnv

SpecConfig == InitConfig /\ [][NextConfig]_vars

(* SpecConcurrent: two requests for "/api/rag/add-source" handled by two   *)
(* goroutines on one service.  AddSource and SaveStore take no lock, so    *)
(* the statements of the two calls interleave freely; a statement that     *)
(* updates a field of the shared store is a read followed by a write.      *)

\* another request is in progress
OtherBusy(h) == \E g \in Handlers \ {h} : handlers.of[g].pc \notin {"idle", "done"}

\* handler h goes on as rec
HandlerStep(h, rec) ==
    [handlers EXCEPT !.of[h] = rec, !.overlapped = @ \/ OtherBusy(h)]

\* the title of the source request h adds
HandlerTitle(h) == Str(UpperLetters[h], 1)

\* AddSource up to the end of its embedding loop: validation, chunking and
\* one Embed call per chunk, none of which writes to the store
StartAddSource(h) ==
    /\ handlers.of[h].pc = "idle"
    /\ \E content \in {Lit(<<" ", "a", " ">>), Concat(Str("a", AddSourceChunkSize), Str("b", 1))} :
       \E outs \in OutcomeSeqs(Len(AddSourceChunks(HandlerTitle(h), content, <<>>))) :
          LET r == AddSource(store, HandlerTitle(h), content, <<>>, outs, now)
              rec == [IdleHandler EXCEPT
                         !.pc = IF r.err = "" THEN "append" ELSE "done",
                         !.chunks = r.added, !.err = r.err]
          IN  handlers' = [HandlerStep(h, rec) EXCEPT !.began = Append(@, h)]
    /\ UNCHANGED <<store, disk, saved, now, calls, defaultTopK, last, env,
                   searchVars, buildVars, chunkVars>>

\* "s.store.Chunks = append(s.store.Chunks, chunks...)": the read
ReadChunks(h) ==
    /\ handlers.of[h].pc = "append"
    /\ handlers' = HandlerStep(h, [handlers.of[h] EXCEPT !.pc = "appended",
                                                         !.seen = store.Chunks])
    /\ UNCHANGED <<store, disk, saved, now, calls, defaultTopK, last, env,
                   searchVars, buildVars, chunkVars>>

\* and the write
WriteChunks(h) ==
    /\ handlers.of[h].pc = "appended"
    /\ store' = [store EXCEPT !.Chunks = GoAppend(handlers.of[h].seen,
                                                  handlers.of[h].chunks)]
    /\ handlers' = HandlerStep(h, [handlers.of[h] EXCEPT !.pc = "sources"])
    /\ UNCHANGED <<disk, saved, now, calls, defaultTopK, last, env,
                   searchVars, buildVars, chunkVars>>

\* "s.store.Metadata.SourceCount++": the read
ReadSourceCount(h) ==
    /\ handlers.of[h].pc = "sources"
    /\ handlers' = HandlerStep(h, [handlers.of[h] EXCEPT
                                      !.pc = "sourced",
                                      !.count = store.Metadata.SourceCount])
    /\ UNCHANGED <<store, disk, saved, now, calls, defaultTopK, last, env,
                   searchVars, buildVars, chunkVars>>

\* and the write
WriteSourceCount(h) ==
    /\ handlers.of[h].pc = "sourced"
    /\ store' = [store EXCEPT !.Metadata.SourceCount = handlers.of[h].count + 1]
    /\ handlers' = HandlerStep(h, [handlers.of[h] EXCEPT !.pc = "chunks"])
    /\ UNCHANGED <<disk, saved, now, calls, defaultTopK, last, env,
                   searchVars, buildVars, chunkVars>>

\* "s.store.Metadata.ChunkCount += len(chunks)": the read
ReadChunkCount(h) ==
    /\ handlers.of[h].pc = "chunks"
    /\ handlers' = HandlerStep(h, [handlers.of[h] EXCEPT
                                      !.pc = "chunked",
                                      !.count = store.Metadata.ChunkCount])
    /\ UNCHANGED <<store, disk, saved, now, calls, defaultTopK, last, env,
                   searchVars, buildVars, chunkVars>>

\* and the write
WriteChunkCount(h) ==
    /\ handlers.of[h].pc = "chunked"
    /\ store' = [store EXCEPT !.Metadata.ChunkCount =
                                  handlers.of[h].count + Len(handlers.of[h].chunks)]
    /\ handlers' = HandlerStep(h, [handlers.of[h] EXCEPT !.pc = "generated"])
    /\ UNCHANGED <<disk, saved, now, calls, defaultTopK, last, env,
                   searchVars, buildVars, chunkVars>>

\* "s.store.Metadata.GeneratedAt = time.Now().UTC()", and AddSource returns
WriteGeneratedAt(h) ==
    /\ handlers.of[h].pc = "generated"
    /\ store' = [store EXCEPT !.Metadata.GeneratedAt = Timestamp(now)]
    /\ now' = now + 1
    /\ handlers' = HandlerStep(h, [handlers.of[h] EXCEPT !.pc = "save"])
    /\ UNCHANGED <<disk, saved, calls, defaultTopK, last, env,
                   searchVars, buildVars, chunkVars>>

\* the handler's call of SaveStore, which writes the store as it is now
HandlerSaveStore(h) ==
    /\ handlers.of[h].pc = "save"
    /\ disk' = SaveStore(store, disk, "").disk
    /\ saved' = store
    /\ handlers' = HandlerStep(h, [handlers.of[h] EXCEPT !.pc = "done",
                                                         !.snapshot = store])
    /\ UNCHANGED <<store, now, calls, defaultTopK, last, env,
                   searchVars, buildVars, chunkVars>>

InitConcurrent ==
    /\ SearchIdle
    /\ BuildIdle
    /\ ChunkIdle
    /\ store \in {StoreOf(ZeroMeta, NilSlice), BuiltStore}
    /\ disk = NoFile
    /\ saved = NoStore
    /\ now = 1
    /\ calls = 0
    /\ defaultTopK = DefaultTopK
    /\ last = NoCall
    /\ env = NoEnv
    /\ handlers = [NoHandlers EXCEPT !.before = store]

NextConcurrent ==
    \E h \in Handlers :
        \/ StartAddSource(h)
        \/ ReadChunks(h)
        \/ WriteChunks(h)
        \/ ReadSourceCount(h)
        \/ WriteSourceCount(h)
        \/ ReadChunkCount(h)
        \/ WriteChunkCount(h)
        \/ WriteGeneratedAt(h)
        \/ HandlerSaveStore(h)

SpecConcurrent == InitConcurrent /\ [][NextConcurrent]_vars

Spec == SpecService

-----------------------------------------------------------------------------
(* Properties of VectorStore.Search, stated of SpecSearch.                 *)

\* a call of Search on a store has returned
Searched == searchOut # Pending /\ ~searchIn.vsNil

\* the score Search computes for a chunk
ScoreOf(chunk) == cosineSimilarity(searchIn.query, chunk.Embedding)

\* C1: for every store with N >= 1 chunks, every non-empty query vector and
\* every topK, the results of Search are ordered by descending score: each
\* result's score is at least the score of the result after it.
C1_DescendingOrder ==
    (Searched /\ Len(searchIn.chunks) >= 1 /\ SliceLen(searchIn.query) > 0)
    => \A i \in 1..(Len(searchOut) - 1) :
           searchOut[i].Score >= searchOut[i + 1].Score

\* what C2 says of the results: exactly min(K, N) of them, each a chunk of
\* the store with its score, none twice, and no chunk left out scores higher
\* than a chunk returned
TopKResults ==
    LET chunks == searchIn.chunks
        returned == {searchOut[i].Chunk.ID : i \in 1..Len(searchOut)}
    IN  /\ Len(searchOut) = Min(searchIn.topK, Len(chunks))
        /\ \A i \in 1..Len(searchOut) :
               /\ searchOut[i].Chunk \in Range(chunks)
               /\ searchOut[i].Score = ScoreOf(searchOut[i].Chunk)
        /\ \A i, j \in 1..Len(searchOut) :
               i # j => searchOut[i].Chunk.ID # searchOut[j].Chunk.ID
        /\ \A p \in 1..Len(chunks) :
               chunks[p].ID \notin returned
               => \A i \in 1..Len(searchOut) : ScoreOf(chunks[p]) <= searchOut[i].Score

\* C2 as stated: for any store of N chunks and any K >= 1, with any query
\* vector, Search returns exactly min(K, N) results, the highest-scoring
\* chunks, none twice.
C2_TopKAnyQuery ==
    (Searched /\ searchIn.topK >= 1) => TopKResults

\* C2: for any store of N chunks, any K >= 1 and any non-empty query vector,
\* Search returns exactly min(K, N) results; every chunk not returned scores
\* at most as much as every chunk returned, and no chunk is returned twice.
C2_TopK ==
    (Searched /\ searchIn.topK >= 1 /\ SliceLen(searchIn.query) > 0) => TopKResults

\* a search that had to choose: three chunks of three different scores, two
\* results wanted, two returned
C2_Witness ==
    /\ Searched
    /\ SliceLen(searchIn.query) > 0
    /\ Len(searchIn.chunks) = 3
    /\ searchIn.topK = 2
    /\ Cardinality({ScoreOf(searchIn.chunks[p]) : p \in 1..3}) = 3
    /\ Len(searchOut) = 2

-----------------------------------------------------------------------------
(* Properties of BuildVectorStore, stated of SpecBuild.                    *)

\* BuildVectorStore has returned
Built == bPc = "done"

\* the Embed calls made so far, in order, and those that succeeded
EmbedCalls == OfKind(bTrace, "Embed")

OkCalls ==
    LET Oks[i \in 0..Len(bTrace)] ==
            IF i = 0 THEN <<>>
            ELSE Oks[i - 1] \o (IF bTrace[i].kind = "Embed" /\ bTrace[i].outcome = "ok"
                                THEN <<bTrace[i]>> ELSE <<>>)
    IN  Oks[Len(bTrace)]

\* every call made to the provider so far has failed
ProviderAlwaysFailed ==
    \A i \in 1..Len(bTrace) : bTrace[i].kind = "Embed" => bTrace[i].outcome = "err"

\* the batch size in force and the end of the first batch
BatchSizeInForce == IF bIn.batchSize <= 0 THEN 16 ELSE bIn.batchSize

FirstBatchEnd == Min(BatchSizeInForce, Len(bChunks))

\* a failed request for the first batch
FirstBatchFailure ==
    [kind |-> "Embed", start |-> 0, end |-> FirstBatchEnd,
     texts |-> [i \in 1..FirstBatchEnd |-> bChunks[i].Text],
     outcome |-> "err", resp |-> <<>>, ms |-> 0]

\* a sleep of the given number of seconds
SleepOf(seconds) ==
    [kind |-> "Sleep", start |-> 0, end |-> 0, texts |-> <<>>,
     outcome |-> "", resp |-> <<>>, ms |-> seconds * 1000]

\* C3: when the embedding provider fails on every call, BuildVectorStore
\* returns an error and no store after exactly 5 Embed attempts for the
\* first batch, having slept 1, 2, 3 and 4 seconds between consecutive
\* attempts and not after the fifth, with no Embed call for a later batch;
\* it does not return before that.
C3_RetryExhaustion ==
    (~bIn.embedderNil /\ Len(bChunks) >= 1 /\ ProviderAlwaysFailed)
    => /\ Built =>
              /\ bResult.err = "failed to embed batch"
              /\ bResult.store.nil
              /\ bTrace = <<FirstBatchFailure, SleepOf(1),
                            FirstBatchFailure, SleepOf(2),
                            FirstBatchFailure, SleepOf(3),
                            FirstBatchFailure, SleepOf(4),
                            FirstBatchFailure>>
       /\ (bPc = "embed") => Len(EmbedCalls) < 5

\* a build of more than one batch given up after five failed attempts
C3_Witness ==
    /\ Built
    /\ ~bIn.embedderNil
    /\ Len(bChunks) > BatchSizeInForce
    /\ ProviderAlwaysFailed
    /\ Len(EmbedCalls) = 5
    /\ bResult.err = "failed to embed batch"

\* C4: BuildVectorStore fails fast: when the embedder is nil or the chunk
\* list is empty it returns an error and a nil store without making any
\* Embed call and without sleeping.
C4_FailFast ==
    (bPc # "idle" /\ (bIn.embedderNil \/ Len(bChunks) = 0))
    => /\ bTrace = <<>>
       /\ bPc # "embed"
       /\ Built => (bResult.err # "" /\ bResult.store.nil)

\* a build with an embedder and no chunks has returned its error
C4_Witness ==
    /\ Built
    /\ ~bIn.embedderNil
    /\ Len(bChunks) = 0
    /\ bResult.err = "no chunks supplied"
    /\ bResult.store.nil

\* the chunk the caller supplied at position p, whatever its embedding
SuppliedChunk(p, embedding) == [BuildChunk(p) EXCEPT !.Embedding = embedding]

\* C5: when BuildVectorStore succeeds, the chunks were processed in
\* contiguous batches of batchSize (16 when batchSize <= 0, only the last
\* batch shorter), the text of each chunk was part of exactly one successful
\* request, chunk number start+i holds the i-th vector of the response to
\* its own batch, and the returned store holds all supplied chunks in their
\* original order with the supplied metadata.
C5_BatchedBuild ==
    (Built /\ bResult.err = "")
    => LET B == BatchSizeInForce
           N == bIn.n
           oks == OkCalls
       IN  /\ Len(bChunks) = N
           /\ Len(oks) = (N + B - 1) \div B
           /\ \A k \in 1..Len(oks) :
                  /\ oks[k].start = (k - 1) * B
                  /\ oks[k].end = Min(k * B, N)
                  /\ Len(oks[k].texts) = oks[k].end - oks[k].start
                  /\ Len(oks[k].resp) = Len(oks[k].texts)
                  /\ \A i \in 1..Len(oks[k].texts) :
                         /\ oks[k].texts[i] = BuildChunk(oks[k].start + i).Text
                         /\ bChunks[oks[k].start + i].Embedding = oks[k].resp[i]
           /\ \A i \in 1..Len(EmbedCalls) :
                  \E k \in 1..Len(oks) :
                      /\ EmbedCalls[i].start = oks[k].start
                      /\ EmbedCalls[i].end = oks[k].end
                      /\ EmbedCalls[i].texts = oks[k].texts
           /\ \A p \in 1..N :
                  /\ Cardinality({k \in 1..Len(oks) :
                                     oks[k].start < p /\ p <= oks[k].end}) = 1
                  /\ bChunks[p] = SuppliedChunk(p, bChunks[p].Embedding)
           /\ bResult.store = [nil |-> FALSE, Metadata |-> bIn.meta,
                               Chunks |-> [nil |-> FALSE, elems |-> bChunks]]

\* a build of 17 chunks under the default batch size: two batches, the
\* second of one chunk, finished after a failed attempt
C5_Witness ==
    /\ Built
    /\ bResult.err = ""
    /\ bIn.batchSize <= 0
    /\ Len(bChunks) = 17
    /\ Len(OkCalls) = 2
    /\ Len(EmbedCalls) > 2
    /\ bChunks[17].Embedding = OkCalls[2].resp[1]

-----------------------------------------------------------------------------
(* Properties of the Service, stated of SpecService.                       *)

\* the last call was a call of AddSource
AddSourceCalled == last.op = "AddSource"

\* the events of a service trace of one kind, in order
EventsOf(trace, kind) ==
    LET Sel[i \in 0..Len(trace)] ==
            IF i = 0 THEN <<>>
            ELSE Sel[i - 1] \o (IF trace[i].kind = kind THEN <<trace[i]>> ELSE <<>>)
    IN  Sel[Len(trace)]

\* the windows of the source a call of AddSource was given
WindowsOf(call) == AddSourceChunks(call.title, call.content, call.uri)

\* a chunk without its embedding
Unembedded(chunk) == [chunk EXCEPT !.Embedding = NilSlice]

\* C6: if the embedding of any chunk fails during Service.AddSource, the
\* call returns an error right after that single failed attempt (one call
\* per chunk up to it, no retry, no Embed call for a later chunk), and the
\* store's chunk list and metadata are what they were before the call.
C6_AddSourceAborts ==
    (AddSourceCalled /\ \E i \in 1..Len(last.trace) :
                            last.trace[i].kind = "Embed" /\ last.trace[i].outcome = "err")
    => LET trace == last.trace
           embeds == EventsOf(trace, "Embed")
           windows == WindowsOf(last)
       IN  /\ last.err = "failed to embed chunk"
           /\ store = last.before
           /\ store.Chunks = last.before.Chunks
           /\ store.Metadata = last.before.Metadata
           /\ trace[Len(trace)].kind = "Embed"
           /\ trace[Len(trace)].outcome = "err"
           /\ \A i \in 1..(Len(embeds) - 1) : embeds[i].outcome # "err"
           /\ Len(embeds) <= Len(windows)
           /\ \A i \in 1..Len(embeds) : embeds[i].texts = <<windows[i].Text>>

\* AddSource on a store of chunks failed at the second chunk of a source of
\* two, after the first was embedded
C6_Witness ==
    /\ last.op = "AddSource"
    /\ last.err = "failed to embed chunk"
    /\ Len(EventsOf(last.trace, "Embed")) = 2
    /\ EventsOf(last.trace, "Embed")[1].outcome = "vec"
    /\ SliceLen(last.before.Chunks) >= 2

\* C7: after a successful Service.AddSource that produced n chunks, the
\* chunk list is the previous list followed by the n new chunks in window
\* order, SourceCount has grown by 1 and ChunkCount by n, so a ChunkCount
\* equal to the number of chunks stays equal to it.
C7_AddSourceAppends ==
    (AddSourceCalled /\ last.err = "")
    => LET added == last.added
           n == Len(added)
           windows == WindowsOf(last)
           before == last.before
       IN  /\ ~store.nil
           /\ store.Chunks.elems = before.Chunks.elems \o added
           /\ n = Len(windows)
           /\ \A i \in 1..n :
                  /\ Unembedded(added[i]) = Unembedded(windows[i])
                  /\ added[i].Index = i - 1
           /\ store.Metadata.SourceCount = before.Metadata.SourceCount + 1
           /\ store.Metadata.ChunkCount = before.Metadata.ChunkCount + n
           /\ before.Metadata.ChunkCount = SliceLen(before.Chunks)
              => store.Metadata.ChunkCount = SliceLen(store.Chunks)

\* a source of two windows was added to the built store of two chunks
C7_Witness ==
    /\ last.op = "AddSource"
    /\ last.err = ""
    /\ Len(last.added) = 2
    /\ SliceLen(last.before.Chunks) = 2
    /\ SliceLen(store.Chunks) = 4
    /\ store.Metadata.ChunkCount = 4
    /\ store.Metadata.SourceCount = 2

\* the question consists of white space only
Blank(question) == \A i \in 1..Len(question) : IsSpace(question[i].c)

\* no provider was called
NoProviderCall(trace) ==
    \A i \in 1..Len(trace) : trace[i].kind \notin {"Embed", "Complete"}

\* C8: Service.Answer validates before any work: without a loaded store it
\* returns the "not initialized" error, with a question that is empty after
\* trimming white space the distinct "question is required" error, and in
\* both cases neither the embedding nor the completion provider is called.
C8_AnswerValidates ==
    (last.op = "Answer")
    => /\ store.nil
          => /\ last.err = "rag service is not initialized"
             /\ NoProviderCall(last.trace)
             /\ last.answer.nil
       /\ (~store.nil /\ Blank(last.question))
          => /\ last.err = "question is required"
             /\ NoProviderCall(last.trace)
             /\ last.answer.nil

\* a question of blanks only was put to a service with a store
C8_Witness ==
    /\ last.op = "Answer"
    /\ ~store.nil
    /\ Len(last.question) > 0
    /\ Blank(last.question)
    /\ last.err = "question is required"
    /\ last.trace = <<>>

\* the kinds of the events of a trace, in order
Kinds(trace) == [i \in 1..Len(trace) |-> trace[i].kind]

\* C9: a call of Service.Answer that passes validation never calls the
\* completion provider and returns no Answer when the query embedding fails
\* (provider error, or zero vectors: "empty query embedding") or when the
\* search returns nothing ("no context available"); otherwise it calls the
\* completion provider exactly once, after the embedding and the search.
C9_CompletionOnlyWithContext ==
    (last.op = "Answer" /\ ~store.nil /\ ~Blank(last.question))
    => LET trace == last.trace
           completes == EventsOf(trace, "Complete")
           topK == IF last.topK <= 0 THEN defaultTopK ELSE last.topK
       IN  /\ Len(trace) >= 1
           /\ trace[1].kind = "Embed"
           /\ trace[1].outcome = "err"
              => /\ Len(completes) = 0
                 /\ last.answer.nil
                 /\ last.err = "embed"
           /\ trace[1].outcome = "none"
              => /\ Len(completes) = 0
                 /\ last.answer.nil
                 /\ last.err = "empty query embedding"
           /\ trace[1].outcome = "vec"
              => /\ last.matches = Search(FALSE, store.Chunks.elems, last.query, topK)
                 /\ Len(last.matches) = 0
                    => /\ Len(completes) = 0
                       /\ last.answer.nil
                       /\ last.err = "no context available"
                 /\ Len(last.matches) > 0
                    => /\ Kinds(trace) = <<"Embed", "Search", "Complete">>
                       /\ last.err \in {"", "complete"}
                       /\ last.answer.nil <=> last.err = "complete"

\* a question was answered: one embedding, one search, one completion
C9_Witness ==
    /\ last.op = "Answer"
    /\ last.err = ""
    /\ ~last.answer.nil
    /\ Len(last.matches) > 0
    /\ Kinds(last.trace) = <<"Embed", "Search", "Complete">>

\* C10: saving a store and loading it back from the same path reproduces a
\* store with identical metadata (generation timestamp, source count, chunk
\* count, notes) and an identical chunk list: same values, embeddings and
\* order.
C10_RoundTrip ==
    (last.op = "Restart" /\ last.err = "")
    => /\ store = saved
       /\ store.Metadata = saved.Metadata
       /\ store.Chunks = saved.Chunks

\* a store of three chunks, one without an embedding, was saved and loaded
C10_Witness ==
    /\ last.op = "Restart"
    /\ last.err = ""
    /\ ~store.nil
    /\ SliceLen(store.Chunks) = 3
    /\ store.Chunks.elems[3].Embedding = NilSlice
    /\ store.Metadata.ChunkCount = 3

\* C11: the persisted store is never partially written: whatever step of
\* VectorStore.Save fails or is interrupted, the file at the index path is
\* absent, or holds the complete content of the last successful save, or the
\* complete content of the store being saved; never a truncated one.
C11_NeverPartial ==
    \/ disk = NoFile
    \/ ~saved.nil /\ disk = File(MarshalStore(saved))
    \/ last.op = "SaveStore" /\ ~store.nil /\ disk = File(MarshalStore(store))

\* the sum of the squares of a vector's components
SquaredNorm(v) ==
    LET Sum[i \in 0..Len(v.elems)] ==
            IF i = 0 THEN 0 ELSE Sum[i - 1] + v.elems[i] * v.elems[i]
    IN  Sum[Len(v.elems)]

\* an embedding the query cannot be compared with: none, one of another
\* length, or a magnitude of zero on either side
Incomparable(embedding) ==
    \/ SliceLen(embedding) = 0
    \/ SliceLen(embedding) # SliceLen(searchIn.query)
    \/ SquaredNorm(embedding) = 0
    \/ SquaredNorm(searchIn.query) = 0

\* the topK in force
TopKInForce == IF searchIn.topK <= 0 THEN 4 ELSE searchIn.topK

\* C13: searching with a non-empty query vector, a chunk whose embedding has
\* another length than the query, or is absent, or has magnitude zero (or
\* any chunk when the query has magnitude zero) gets the score 0 exactly and
\* no error is raised; such chunks take part in the selection: one is left
\* out only when topK chunks scoring at least 0 are returned.
C13_MismatchScoresZero ==
    (Searched /\ SliceLen(searchIn.query) > 0)
    => /\ \A i \in 1..Len(searchOut) :
              Incomparable(searchOut[i].Chunk.Embedding) => searchOut[i].Score = 0
       /\ \A p \in 1..Len(searchIn.chunks) :
              (/\ Incomparable(searchIn.chunks[p].Embedding)
               /\ \A i \in 1..Len(searchOut) :
                      searchOut[i].Chunk.ID # searchIn.chunks[p].ID)
              => /\ Len(searchOut) = TopKInForce
                 /\ \A i \in 1..Len(searchOut) : searchOut[i].Score >= 0

\* a search returned a chunk of another dimension with score 0, next to a
\* chunk of negative score that lost against it and one of positive score
C13_Witness ==
    /\ Searched
    /\ SliceLen(searchIn.query) = 2
    /\ Len(searchIn.chunks) = 3
    /\ Len(searchOut) = 2
    /\ \E i \in 1..2 :
           /\ SliceLen(searchOut[i].Chunk.Embedding) = 5
           /\ searchOut[i].Score = 0
    /\ \E i \in 1..2 : searchOut[i].Score > 0
    /\ \E p \in 1..3 : ScoreOf(searchIn.chunks[p]) < 0

\* C14: VectorStore.Search returns an empty result exactly when the store is
\* nil, the query vector is empty or the store has zero chunks; in every
\* other case it returns min(k, N) >= 1 results, k being topK, or 4 when
\* topK <= 0.
C14_EmptyExactlyWhen ==
    (searchOut # Pending)
    => LET none == \/ searchIn.vsNil
                   \/ SliceLen(searchIn.query) = 0
                   \/ Len(searchIn.chunks) = 0
       IN  /\ Len(searchOut) = 0 <=> none
           /\ ~none => /\ Len(searchOut) = Min(TopKInForce, Len(searchIn.chunks))
                       /\ Len(searchOut) >= 1

\* a search with topK <= 0 over five chunks returned four
C14_Witness ==
    /\ Searched
    /\ searchIn.topK <= 0
    /\ Len(searchIn.chunks) = 5
    /\ Len(searchOut) = 4

\* C15: every source snippet of an Answer is at most 400 characters long,
\* whatever the chunk text: a text of more than 400 characters gives the
\* truncated text and the ellipsis, within the 400.
C15_SnippetAtMost400 ==
    (last.op = "Answer" /\ ~last.answer.nil)
    => \A i \in 1..Len(last.answer.Sources) :
           StrLen(last.answer.Sources[i].Snippet) <= 400

\* the number of failed attempts of the batch in hand after the first i
\* events of the trace
FailedSoFar ==
    [i \in 0..Len(bTrace) |->
        LET F[j \in 0..i] ==
                IF j = 0 THEN 0
                ELSE IF bTrace[j].kind # "Embed" THEN F[j - 1]
                ELSE IF bTrace[j].outcome = "err" THEN F[j - 1] + 1
                ELSE 0
        IN  F[i]]

\* C20: in BuildVectorStore a batch whose Embed call fails f times
\* (0 <= f <= 4) and then succeeds is embedded after exactly f+1 attempts,
\* attempt n coming right after a sleep of n-1 seconds that follows the
\* failed attempt n-1 of the same batch; after the successful attempt there
\* is no sleep but the 1-second pacing before a next batch; and the first
\* attempt of every batch is attempt 1, whatever failed in the batch before.
C20_RetryThenSucceed ==
    \A i \in 1..Len(bTrace) :
        bTrace[i].kind = "Embed"
        => LET f == FailedSoFar[i - 1]
           IN  /\ f <= 4
               /\ f > 0
                  => /\ i >= 3
                     /\ bTrace[i - 1] = SleepOf(f)
                     /\ bTrace[i - 2].kind = "Embed"
                     /\ bTrace[i - 2].outcome = "err"
                     /\ bTrace[i - 2].start = bTrace[i].start
                     /\ bTrace[i - 2].end = bTrace[i].end
               /\ (f = 0 /\ i > 1)
                  => /\ i >= 3
                     /\ bTrace[i - 1] = SleepOf(1)
                     /\ bTrace[i - 2].kind = "Embed"
                     /\ bTrace[i - 2].outcome = "ok"
                     /\ bTrace[i - 2].end = bTrace[i].start
               /\ (f = 0 /\ i = 1) => bTrace[i].start = 0
               /\ bTrace[i].outcome = "ok"
                  => IF bTrace[i].end < Len(bChunks)
                     THEN /\ Len(bTrace) >= i + 1
                          /\ bTrace[i + 1] = SleepOf(1)
                          /\ Len(bTrace) >= i + 2 => bTrace[i + 2].kind = "Embed"
                     ELSE /\ Len(bTrace) = i
                          /\ Built
                          /\ bResult.err = ""

\* a build of two batches, each embedded at its fifth attempt: nine events
\* of the first batch, the pacing sleep, nine of the second
C20_Witness ==
    /\ Built
    /\ bResult.err = ""
    /\ Len(OkCalls) = 2
    /\ Len(EmbedCalls) = 10
    /\ Len(bTrace) = 19
    /\ bTrace[9].outcome = "ok"
    /\ bTrace[10] = SleepOf(1)
    /\ bTrace[11].outcome = "err"
    /\ bTrace[18] = SleepOf(4)
    /\ bTrace[19].outcome = "ok"

\* C12: BuildVectorStore honours the caller's cancellation context: once ctx
\* is cancelled it makes no further Embed attempt beyond the one through
\* which it learns of the cancellation, sleeps no more (neither backoff nor
\* pacing), and returns an error.
C12_HonorsCancellation ==
    (bCancelAt >= 0)
    => LET after == SubSeq(bTrace, bCancelAt + 1, Len(bTrace))
       IN  /\ Len(OfKind(after, "Sleep")) = 0
           /\ Len(OfKind(after, "Embed")) <= 1
           /\ Len(OfKind(after, "Embed")) = 1 => Built
           /\ Built => bResult.err # ""

-----------------------------------------------------------------------------
(* Properties of the chunker, stated of SpecChunk.                         *)

\* ChunkDocuments has returned
Chunked == chunkOut # Pending

\* the content that was chunked, its length, and the options
ChunkedContent == chunkIn.docs[1].Content

ContentLen == Len(ChunkedContent)

\* the position (1-based) in the content of a character of it
PositionOf(c) == CHOOSE i \in 1..9 : Digits[i + 1] = c

\* where the window of a chunk lies: 0-based start, exclusive end
WindowFrom(chunk) == PositionOf(chunk.Text[1].c) - 1

WindowTo(chunk) == PositionOf(chunk.Text[Len(chunk.Text)].c)

\* C18: for every non-empty content and every options pair (size > 0,
\* overlap >= 0, overlap >= size included) the chunk windows cover the
\* whole content without gaps: the first starts at position 0, each next one
\* starts at or before the end of the one before and reaches further, the
\* last ends at the content's end, and no window is empty or repeats the
\* final one.
C18_WindowsCover ==
    (Chunked /\ ContentLen >= 1 /\ chunkIn.opts.Size > 0 /\ chunkIn.opts.Overlap >= 0)
    => LET cs == chunkOut
       IN  /\ Len(cs) >= 1
           /\ \A i \in 1..Len(cs) :
                  /\ Len(cs[i].Text) >= 1
                  /\ cs[i].Text = SubSeq(ChunkedContent, WindowFrom(cs[i]) + 1,
                                         WindowTo(cs[i]))
                  /\ WindowTo(cs[i]) - WindowFrom(cs[i]) <= chunkIn.opts.Size
                  /\ cs[i].Index = i - 1
           /\ WindowFrom(cs[1]) = 0
           /\ \A i \in 1..(Len(cs) - 1) :
                  /\ WindowFrom(cs[i + 1]) <= WindowTo(cs[i])
                  /\ WindowFrom(cs[i + 1]) > WindowFrom(cs[i])
                  /\ WindowTo(cs[i + 1]) > WindowTo(cs[i])
           /\ WindowTo(cs[Len(cs)]) = ContentLen

\* a content of 8 characters under size 4 and overlap 5, an overlap not
\* below the size: three windows, the last ending at the content's end
C18_Witness ==
    /\ Chunked
    /\ ContentLen = 8
    /\ chunkIn.opts.Size = 4
    /\ chunkIn.opts.Overlap = 5
    /\ Len(chunkOut) = 3
    /\ WindowFrom(chunkOut[2]) = 3
    /\ WindowTo(chunkOut[3]) = 8

\* what C19 says of a content of the lengths it names
BoundaryCounts ==
    /\ ContentLen <= chunkIn.opts.Size
       => /\ Len(chunkOut) = 1
          /\ chunkOut[1].Text = ChunkedContent
    /\ ContentLen = chunkIn.opts.Size * 2 - chunkIn.opts.Overlap
       => Len(chunkOut) = 2

\* C19 as stated: for every size > overlap >= 0, a content of every length
\* <= size gives exactly one chunk equal to the whole content, and a content
\* of length size*2 - overlap gives exactly 2 chunks.
C19_BoundaryAnyLength ==
    (Chunked /\ chunkIn.opts.Size > chunkIn.opts.Overlap /\ chunkIn.opts.Overlap >= 0)
    => BoundaryCounts

\* C19: for every size > overlap >= 0, a non-empty content of length <= size
\* gives exactly one chunk equal to the whole content, a content of length
\* size*2 - overlap gives exactly 2 chunks, and an empty content gives none.
C19_Boundary ==
    (Chunked /\ chunkIn.opts.Size > chunkIn.opts.Overlap /\ chunkIn.opts.Overlap >= 0)
    => /\ ContentLen >= 1 => BoundaryCounts
       /\ ContentLen = 0 => Len(chunkOut) = 0

\* a content of 6 characters under size 4 and overlap 2: two chunks, the
\* second starting inside the first
C19_Witness ==
    /\ Chunked
    /\ chunkIn.opts.Size = 4
    /\ chunkIn.opts.Overlap = 2
    /\ ContentLen = 6
    /\ Len(chunkOut) = 2
    /\ WindowFrom(chunkOut[2]) = 2

-----------------------------------------------------------------------------
(* Properties of the whole pipeline, stated of SpecEndToEnd.               *)

\* the number of chunks made from document k of the input
ChunksOfDocument(k) ==
    Cardinality({i \in 1..Len(chunkOut) : chunkOut[i].DocumentID = chunkIn.docs[k].ID})

\* the chunker's part of C16: 2 + 1 + 2 = 5 chunks
FiveChunks ==
    Chunked => /\ Len(chunkOut) = 5
               /\ ChunksOfDocument(1) = 2
               /\ ChunksOfDocument(2) = 1
               /\ ChunksOfDocument(3) = 2

\* C16: chunking the documents of 1500, 500 and 1500 characters with size
\* 1200 and overlap 200 gives 2 + 1 + 2 = 5 chunks, and after a build with
\* an embedder that returns a unit vector per chunk, a search with topK 3
\* for one chunk's embedding returns a chunk of that embedding at position
\* 0 with score 1.0.
C16_EndToEnd ==
    /\ FiveChunks
    /\ Searched => /\ Len(searchOut) >= 1
                   /\ searchOut[1].Chunk.Embedding = searchIn.query
                   /\ searchOut[1].Score = ScoreScale

-----------------------------------------------------------------------------
(* Properties of the construction of the service, stated of SpecConfig.   *)

\* NewServiceFromEnv has returned
Constructed == last.op = "NewServiceFromEnv"

\* RAG_PROVIDER is set and names neither provider, whatever its case
UnsupportedProvider ==
    /\ Len(env.RAG_PROVIDER) > 0
    /\ ToLower(env.RAG_PROVIDER) \notin {ProviderOllama, ProviderOpenAI}

\* the openai provider is selected and OPENAI_API_KEY is not set
OpenAIWithoutKey ==
    /\ ToLower(env.RAG_PROVIDER) = ProviderOpenAI
    /\ Len(env.OPENAI_API_KEY) = 0

ConfigurationErrors == {"unsupported provider", "OPENAI_API_KEY is required"}

\* C17: construction from the environment fails and returns no service
\* whenever RAG_PROVIDER names an unsupported provider or openai is selected
\* without an API key; where the index file loads, the error is a
\* configuration error.
C17_ConfigurationErrorsFatal ==
    (Constructed /\ (UnsupportedProvider \/ OpenAIWithoutKey))
    => /\ last.err # ""
       /\ last.service.nil
       /\ LoadVectorStore(disk).err = "" => last.err \in ConfigurationErrors

\* the part of C17 about the API key alone
OpenAIWithoutKeyFatal ==
    (Constructed /\ OpenAIWithoutKey)
    => /\ last.err # ""
       /\ last.service.nil
       /\ LoadVectorStore(disk).err = "" => last.err = "OPENAI_API_KEY is required"

-----------------------------------------------------------------------------
(* Pacing of BuildVectorStore, stated of SpecBuild.                        *)

\* event i of the trace is a successful request
OkAt(i) == bTrace[i].kind = "Embed" /\ bTrace[i].outcome = "ok"

\* the positions of the pacing sleeps: the sleeps that follow a successful
\* request (a backoff sleep follows a failed one)
PacingSleepsAt == {i \in 2..Len(bTrace) : bTrace[i].kind = "Sleep" /\ OkAt(i - 1)}

\* C21: BuildVectorStore sleeps exactly 1 second after each successfully
\* embedded batch that is not the last one, and never after the last batch
\* or after a batch that failed for good; a successful build over n chunks
\* with batch size b makes exactly ceil(n/b) - 1 pacing sleeps; batch k+1
\* is never requested before batch k has succeeded and its pacing sleep is
\* over.
C21_Pacing ==
    LET B == BatchSizeInForce
        N == Len(bChunks)
    IN  /\ \A i \in 1..Len(bTrace) :
               OkAt(i) =>
                   IF bTrace[i].end < N
                   THEN /\ i < Len(bTrace)
                        /\ bTrace[i + 1] = SleepOf(1)
                   ELSE i = Len(bTrace)
        /\ (Built /\ bResult.err = "failed to embed batch")
           => /\ bTrace[Len(bTrace)].kind = "Embed"
              /\ bTrace[Len(bTrace)].outcome = "err"
        /\ (Built /\ bResult.err = "")
           => Cardinality(PacingSleepsAt) = ((N + B - 1) \div B) - 1
        /\ \A i \in 1..Len(bTrace) :
               (bTrace[i].kind = "Embed" /\ bTrace[i].start > 0)
               => \E j \in 1..(i - 2) :
                      /\ OkAt(j)
                      /\ bTrace[j].end = bTrace[i].start
                      /\ bTrace[j + 1] = SleepOf(1)

\* a build of three batches that succeeded after a failed attempt: two
\* pacing sleeps and one backoff sleep
C21_Witness ==
    /\ Built
    /\ bResult.err = ""
    /\ Len(OkCalls) = 3
    /\ Cardinality(PacingSleepsAt) = 2
    /\ Len(OfKind(bTrace, "Sleep")) = 3
    /\ bTrace[Len(bTrace)].kind = "Embed"

\* C25: when BuildVectorStore fails because a batch exhausted its retries,
\* every chunk of the caller's slice is as the caller supplied it: none has
\* had an embedding assigned, those of the batches embedded before the
\* failed one included.
C25_ChunksUnchangedOnFailure ==
    (Built /\ bResult.err = "failed to embed batch")
    => \A p \in 1..Len(bChunks) : bChunks[p] = BuildChunk(p)

\* C26: when an Embed call returns no error but fewer vectors than the
\* batch has texts, BuildVectorStore returns a descriptive error and no
\* store, and it does not run into a read of the response beyond its
\* length (the index-out-of-range panic).
C26_ShortResponseAborts ==
    \A i \in 1..Len(bTrace) :
        (bTrace[i].kind = "Embed" /\ bTrace[i].outcome = "short")
        => /\ Built
           /\ bResult.store.nil
           /\ bResult.err \notin {"", "panic"}

-----------------------------------------------------------------------------
(* The heap of VectorStore.Search, stated of SpecSearch.                   *)

\* the heap after the first n chunks of the searched store
HeapAfter(n) == SearchHeap(searchIn.chunks, searchIn.query, TopKInForce, n)

\* the ids of the chunks a heap holds
HeldIDs(pq) == {pq[i].chunk.ID : i \in 1..Len(pq)}

\* the lowest score a non-empty heap holds
LowestScore(pq) ==
    CHOOSE s \in {pq[i].score : i \in 1..Len(pq)} :
        \A i \in 1..Len(pq) : s <= pq[i].score

\* C24: during Search the heap never holds more than topK entries; a
\* candidate is inserted unconditionally while the heap holds fewer than
\* topK; once the heap is full, a candidate takes the place of one entry of
\* the lowest score only if its own score is strictly greater, and a
\* candidate of a score equal to (or below) the lowest leaves the heap as it
\* is; the results are the chunks the heap holds at the end.
C24_HeapDiscipline ==
    (Searched /\ SliceLen(searchIn.query) > 0)
    => LET N == Len(searchIn.chunks)
           K == TopKInForce
       IN  /\ \A n \in 1..N :
                  LET before == HeapAfter(n - 1)
                      after == HeapAfter(n)
                      candidate == searchIn.chunks[n]
                  IN  /\ Len(after) <= K
                      /\ Cardinality(HeldIDs(after)) = Len(after)
                      /\ IF Len(before) < K
                         THEN HeldIDs(after) = HeldIDs(before) \cup {candidate.ID}
                         ELSE IF ScoreOf(candidate) > LowestScore(before)
                         THEN \E i \in 1..Len(before) :
                                  /\ before[i].score = LowestScore(before)
                                  /\ HeldIDs(after) =
                                         (HeldIDs(before) \ {before[i].chunk.ID})
                                         \cup {candidate.ID}
                         ELSE after = before
           /\ {searchOut[i].Chunk.ID : i \in 1..Len(searchOut)} = HeldIDs(HeapAfter(N))

\* a search for one result over three chunks: the second ties with the first
\* and does not take its place, the third scores higher and does
C24_Witness ==
    /\ Searched
    /\ SliceLen(searchIn.query) > 0
    /\ searchIn.topK = 1
    /\ Len(searchIn.chunks) = 3
    /\ ScoreOf(searchIn.chunks[2]) = ScoreOf(searchIn.chunks[1])
    /\ ScoreOf(searchIn.chunks[3]) > ScoreOf(searchIn.chunks[1])
    /\ HeldIDs(HeapAfter(2)) = {1}
    /\ HeldIDs(HeapAfter(3)) = {3}
    /\ searchOut[1].Chunk.ID = 3

-----------------------------------------------------------------------------
(* The sources of an answer, stated of SpecService.                        *)

\* C22: on success Service.Answer returns exactly one source attribution
\* per search match, at most the resolved topK of them (the service default
\* when options.topK <= 0), in the order in which the prompt enumerates the
\* matches, and that order is from most to least relevant: the scores of
\* the attributions do not increase from first to last.
C22_SourcesMostRelevantFirst ==
    (last.op = "Answer" /\ last.err = "")
    => LET sources == last.answer.Sources
           sections == last.trace[Len(last.trace)].prompt.sections
           topK == IF last.topK <= 0 THEN defaultTopK ELSE last.topK
       IN  /\ Len(sources) = Len(last.matches)
           /\ Len(sources) <= topK
           /\ Len(sections) = Len(sources)
           /\ \A i \in 1..Len(sources) :
                  /\ sources[i].Title = last.matches[i].Chunk.Source
                  /\ sources[i].URI = last.matches[i].Chunk.URI
                  /\ sources[i].Score = last.matches[i].Score
                  /\ sections[i].n = i
                  /\ sections[i].Text = last.matches[i].Chunk.Text
           /\ \A i \in 1..(Len(sources) - 1) : sources[i].Score >= sources[i + 1].Score

\* the part of C22 that does not depend on the order Search returns
SourcesFollowMatches ==
    (last.op = "Answer" /\ last.err = "")
    => /\ Len(last.answer.Sources) = Len(last.matches)
       /\ Len(last.answer.Sources) <= (IF last.topK <= 0 THEN defaultTopK ELSE last.topK)
       /\ \A i \in 1..Len(last.matches) :
              last.answer.Sources[i].Score = last.matches[i].Score

-----------------------------------------------------------------------------
(* The "no context available" error, stated of SpecService.                *)

\* a call of Answer for which the provider returned a first query vector
QueryVectorReturned ==
    /\ last.op = "Answer"
    /\ Len(last.trace) >= 1
    /\ last.trace[1].kind = "Embed"
    /\ last.trace[1].outcome = "vec"

\* the query vector has another length than every stored embedding
QueryFitsNoChunk ==
    \A i \in 1..SliceLen(store.Chunks) :
        SliceLen(store.Chunks.elems[i].Embedding) # SliceLen(last.query)

\* C30: when the provider has returned a first query vector, Service.Answer
\* returns the "no context available" error if and only if the store has
\* zero chunks or that vector is empty; on a store of at least one chunk
\* and a non-empty query vector it calls the completion provider, also when
\* the query's length differs from every stored embedding, and then every
\* source returned has the score 0.
C30_NoContextExactlyWhen ==
    QueryVectorReturned
    => /\ (last.err = "no context available")
          <=> (SliceLen(store.Chunks) = 0 \/ SliceLen(last.query) = 0)
       /\ (SliceLen(store.Chunks) >= 1 /\ SliceLen(last.query) > 0)
          => /\ Len(EventsOf(last.trace, "Complete")) = 1
             /\ Len(last.matches) >= 1
             /\ (last.err = "" /\ QueryFitsNoChunk)
                => /\ Len(last.answer.Sources) >= 1
                   /\ \A i \in 1..Len(last.answer.Sources) :
                          last.answer.Sources[i].Score = 0

\* an answer given from a store of two chunks of dimension 2 to a query
\* vector of dimension 3: both sources score 0
C30_Witness ==
    /\ QueryVectorReturned
    /\ last.err = ""
    /\ SliceLen(store.Chunks) = 2
    /\ SliceLen(last.query) = 3
    /\ QueryFitsNoChunk
    /\ Len(last.answer.Sources) = 2
    /\ last.answer.Sources[1].Score = 0

-----------------------------------------------------------------------------
(* What a successful AddSource leaves in the store, stated of SpecService. *)

\* C27: after Service.AddSource returns success, every chunk it appended to
\* the store has a non-empty embedding, whatever the embedding provider did,
\* a call answered with no vector and no error included.
C27_AddedChunksEmbedded ==
    (last.op = "AddSource" /\ last.err = "")
    => \A i \in 1..Len(last.added) :
           /\ last.added[i] \in Range(store.Chunks.elems)
           /\ SliceLen(last.added[i].Embedding) > 0

\* C28: Service.AddSource never counts a source that contributed no chunk:
\* a call that returns success has appended at least one chunk, and a call
\* whose content is empty or only whitespace returns "content cannot be
\* empty" and leaves SourceCount, ChunkCount and the chunk list as they were.
C28_NoSourceWithoutChunk ==
    (last.op = "AddSource" /\ ~last.before.nil)
    => /\ last.err = ""
          => /\ Len(last.added) >= 1
             /\ SliceLen(store.Chunks) > SliceLen(last.before.Chunks)
       /\ Blank(last.content)
          => /\ last.err = "content cannot be empty"
             /\ store.Chunks = last.before.Chunks
             /\ store.Metadata.SourceCount = last.before.Metadata.SourceCount
             /\ store.Metadata.ChunkCount = last.before.Metadata.ChunkCount

\* the part of C28 about a content of no character at all
EmptyContentRefused ==
    (last.op = "AddSource" /\ ~last.before.nil /\ Len(last.content) = 0)
    => /\ last.err = "content cannot be empty"
       /\ store = last.before

\* C29: the chunk ids of the store are unique after every sequence of
\* successful AddSource calls on a store whose ids were unique to begin
\* with, calls that reuse a title or leave it blank included.
C29_ChunkIDsUnique ==
    \A i, j \in 1..SliceLen(store.Chunks) :
        i # j => store.Chunks.elems[i].ID # store.Chunks.elems[j].ID

-----------------------------------------------------------------------------
(* Concurrent add-source requests, stated of SpecConcurrent.               *)

\* no request is in progress
Quiescent == \A h \in Handlers : handlers.of[h].pc \in {"idle", "done"}

\* the requests whose AddSource call succeeded, in the order they began
SucceededInOrder ==
    SelectSeq(handlers.began,
              LAMBDA h : handlers.of[h].pc = "done" /\ handlers.of[h].err = "")

\* the chunks of the requests of a sequence, in order
RECURSIVE ChunksOfRequests(_)
ChunksOfRequests(hs) ==
    IF Len(hs) = 0 THEN <<>>
    ELSE handlers.of[hs[1]].chunks \o ChunksOfRequests(Tail(hs))

\* a store that holds chunks its ChunkCount does not count yet, the store
\* the requests began with taken as the reference
CountsBehind(vs) ==
    vs.Metadata.ChunkCount - handlers.before.Metadata.ChunkCount
    < SliceLen(vs.Chunks) - SliceLen(handlers.before.Chunks)

\* C23: the store is only safe under a single writer.  When the requests
\* are handled one after the other, k successful AddSource calls leave the
\* chunks of all k sources in the store, in order, with SourceCount
\* increased by k and ChunkCount by the number of chunks, and every
\* SaveStore wrote a store whose counts match its chunks; an update is lost,
\* or a store with chunks not yet counted is saved, only when two requests
\* interleaved.
C23_SingleWriterOnly ==
    /\ (~handlers.overlapped /\ Quiescent)
       => LET added == ChunksOfRequests(SucceededInOrder)
          IN  /\ store.Chunks = GoAppend(handlers.before.Chunks, added)
              /\ store.Metadata.SourceCount =
                     handlers.before.Metadata.SourceCount + Len(SucceededInOrder)
              /\ store.Metadata.ChunkCount =
                     handlers.before.Metadata.ChunkCount + Len(added)
    /\ ~handlers.overlapped
       => \A h \in Handlers :
              (handlers.of[h].pc = "done" /\ handlers.of[h].err = "")
              => ~CountsBehind(handlers.of[h].snapshot)

\* two requests that interleaved, both answered with success: the store
\* counts one source where two were added, and the second request saved a
\* store that held the chunks of the first before they were counted
C23_Witness ==
    /\ Quiescent
    /\ handlers.overlapped
    /\ Len(SucceededInOrder) = 2
    /\ store.Metadata.SourceCount = handlers.before.Metadata.SourceCount + 1
    /\ SliceLen(store.Chunks) =
           SliceLen(handlers.before.Chunks) + Len(ChunksOfRequests(SucceededInOrder))
    /\ CountsBehind(handlers.of[2].snapshot)

\* two interleaved requests, both answered with success, after which the
\* store holds the chunks of one of them only
LostChunks ==
    /\ Quiescent
    /\ Len(SucceededInOrder) = 2
    /\ SliceLen(store.Chunks) <
           SliceLen(handlers.before.Chunks) + Len(ChunksOfRequests(SucceededInOrder))

====
